---------------------------- MODULE Spec2Model ----------------------------
(***************************************************************************)
(* Model of the timeline engine of react-yfiles-core: the bucket tree      *)
(* shown through a folding view, the zoom level that collapses/expands it, *)
(* the selected timeframe and the filter predicate over data items.        *)
(***************************************************************************)
EXTENDS Integers, Sequences, FiniteSets, TLC

\* ------------------------------------------------------------------------
\* Bounds of the model
\* ------------------------------------------------------------------------
MaxBuckets == 5
MaxFuel == 8
MaxTime == 1
MaxEntries == 2
MaxQueryNodes == 4
MaxLaterBuckets == 4
DataGap == 3
MaxStartDays == 47
MaxSpanDays == 9
MaxYield == 12
MaxHeight == 7
MaxValue == 25
MaxListeners == 2
MaxRegistrations == 4
MaxMessages == 3
MaxEngines == 4
MaxDataItems == 3

\* ------------------------------------------------------------------------
\* Program constants
\* ------------------------------------------------------------------------
minZoom == 1
maxZoom == 4
CtorZoom == 2
TopLayer == 4
EpochZero == 0
UNDEFINED_TIMEFRAME == <<EpochZero, EpochZero>>

VARIABLES
  buckets,      \* this.buckets: the bucket tree, in pre-order, one record per bucket
  expanded,     \* folding view state: expanded[n] for every master group node n
  zoom,         \* this.zoom
  timeframe,    \* this._timeframe: [sentinel |-> it is the UNDEFINED_TIMEFRAME object,
                \*                   val |-> <<start, end>>]
  showTimeframeRectangle,  \* constructor parameter
  changeLayout, \* the constructor's flag: a deferred recomputation is pending
  probe,        \* the data item last handed to the filter, with its time range
  last,         \* what the last operation did (call arguments and results)
  timers,       \* the number of setTimeout callbacks of the size-changed listener
                \* that are scheduled and have not run
  rectBounds,   \* this.timeframeRect.bounds: the bars whose centre it contains
  query         \* the last call of a bounds/timeframe conversion on the current
                \* view graph, with its inputs

VARIABLES
  calendar  \* the last call of a granularity iterator: its arguments and what it yielded

VARIABLES
  scaling  \* the last run of the bar-scaling stage: its inputs and the heights it set

VARIABLES
  animationEndListener  \* this.animationEndListener: the invocation list of the delegate, with what the last call on it did

VARIABLES
  webworker  \* WebworkerSupport: the licence, the worker's onmessage handler, the promise of the last registerWebWorker call and the messages

VARIABLES
  sentinelValue  \* the elements of the shared UNDEFINED_TIMEFRAME array

VARIABLES
  cleanedUp  \* cleanUp() has been called on the engine

VARIABLES
  timelineComponent  \* the Timeline component: its props and state, the dependencies of its effects and the engines it created

vars == <<buckets, expanded, zoom, timeframe, showTimeframeRectangle,
          changeLayout, probe, last, timers, rectBounds, query,
          calendar,
          scaling,
          animationEndListener,
          webworker,
          sentinelValue,
          cleanedUp,
          timelineComponent>>

\* ------------------------------------------------------------------------
\* Bucket trees.  A tree is given by the layers of its buckets in pre-order:
\* roots are year buckets (layer 4); a bucket of layer l directly after a
\* bucket of layer l+1 is its first child; a bucket whose layer is not
\* smaller than its predecessor's is the next child of the closest earlier
\* bucket one layer coarser.
\* ------------------------------------------------------------------------
Max(a, b) == IF a >= b THEN a ELSE b
Min(a, b) == IF a <= b THEN a ELSE b

SetMax(S) == CHOOSE x \in S : \A y \in S : y <= x

DayLayer == 1
WeekLayer == 2

\* pre-order layer sequences of n buckets
RECURSIVE PreOrders(_)
PreOrders(n) ==
  IF n = 0 THEN {<<>>}
  ELSE IF n = 1 THEN {<<TopLayer>>}
  ELSE {Append(ls, l) : ls \in PreOrders(n - 1), l \in DayLayer..TopLayer}

\* The iterators cut the same range of dates at every granularity: a year has
\* months and a month has weeks, and the days start at the first date and end
\* at the last one, so that a week before or after them has no day bucket.
IsLayerSeq(ls) ==
  /\ \A i \in 1..(Len(ls) - 1) : ls[i + 1] >= ls[i] - 1
  /\ \A i \in 1..Len(ls) : ls[i] > WeekLayer => (i < Len(ls) /\ ls[i + 1] = ls[i] - 1)
  /\ Len(ls) > 0 => \E i \in 1..Len(ls) : ls[i] = DayLayer

LayerSeqs(n) == {ls \in PreOrders(n) : IsLayerSeq(ls)}

ParentIn(ls, i) ==
  LET cands == {j \in 1..(i - 1) : ls[j] = ls[i] + 1}
  IN IF cands = {} THEN 0 ELSE SetMax(cands)

\* last bucket of the subtree rooted at i (pre-order: the subtree is i..LastDesc)
LastDesc(ls, i) ==
  LET stops == {j \in (i + 1)..Len(ls) : ls[j] >= ls[i]}
  IN IF stops = {} THEN Len(ls)
     ELSE (CHOOSE j \in stops : \A k \in stops : j <= k) - 1

ChildlessIn(ls, i) == LastDesc(ls, i) = i

TimeBase == EpochZero + 1

\* Every bucket without children covers one unit of time; a bucket with
\* children covers exactly the time of its children.
StartIn(ls, i) == TimeBase + Cardinality({j \in 1..(i - 1) : ChildlessIn(ls, j)})
EndIn(ls, i) == TimeBase + Cardinality({j \in 1..LastDesc(ls, i) : ChildlessIn(ls, j)})

Bucket(ls, i) ==
  [layer |-> ls[i], parent |-> ParentIn(ls, i),
   start |-> StartIn(ls, i), end |-> EndIn(ls, i)]

\* the buckets of positions 1..k as a sequence
RECURSIVE BucketsUpTo(_, _)
BucketsUpTo(ls, k) ==
  IF k = 0 THEN <<>> ELSE Append(BucketsUpTo(ls, k - 1), Bucket(ls, k))

aggregateBuckets(ls) == BucketsUpTo(ls, Len(ls))

\* the same buckets for items that are DataGap time units later
RECURSIVE LaterUpTo(_, _)
LaterUpTo(bs, k) ==
  IF k = 0 THEN <<>>
  ELSE Append(LaterUpTo(bs, k - 1),
              [bs[k] EXCEPT !.start = @ + DataGap, !.end = @ + DataGap])

Later(bs) == LaterUpTo(bs, Len(bs))

TreesUpTo(m) == UNION {{aggregateBuckets(ls) : ls \in LayerSeqs(n)} : n \in 0..m}

\* the data sets: items from TimeBase on, and smaller sets of later items
BucketTrees == TreesUpTo(MaxBuckets) \cup {Later(bs) : bs \in TreesUpTo(MaxLaterBuckets)}

Nodes(bs) == 1..Len(bs)
Children(bs, n) == {c \in Nodes(bs) : bs[c].parent = n}
HasChildren(bs, n) == Children(bs, n) # {}

RECURSIVE Ancestors(_, _)
Ancestors(bs, n) ==
  IF bs[n].parent = 0 THEN {}
  ELSE {bs[n].parent} \cup Ancestors(bs, bs[n].parent)

\* ------------------------------------------------------------------------
\* The folding view over the master graph
\* ------------------------------------------------------------------------
\* every bucket is created through createGroupNodesSource: a master group node
masterIsGroupNode(bs, n) == TRUE

\* a master node is in the view iff none of its ancestors is collapsed
viewContains(bs, ex, n) == \A a \in Ancestors(bs, n) : ex[a]
viewNodes(bs, ex) == {n \in Nodes(bs) : viewContains(bs, ex, n)}

\* a view node is a group node iff its master is a group node and it is expanded
viewIsGroupNode(bs, ex, n) == masterIsGroupNode(bs, n) /\ ex[n]

\* the folder states of nodes 1..k after changing those in S to the state to
RECURSIVE setFolderState(_, _, _, _)
setFolderState(ex, S, to, k) ==
  IF k = 0 THEN <<>>
  ELSE Append(setFolderState(ex, S, to, k - 1), IF k \in S THEN to ELSE ex[k])

collapse(ex, S) == setFolderState(ex, S, FALSE, Len(ex))
expand(ex, S) == setFolderState(ex, S, TRUE, Len(ex))

\* ------------------------------------------------------------------------
\* zoomTo: the fixed-point loop over the view graph
\* ------------------------------------------------------------------------
nodesToCollapse(bs, ex, z) ==
  {n \in viewNodes(bs, ex) : bs[n].layer = z /\ viewIsGroupNode(bs, ex, n)}

\* zoomTo that expands only from two layers above the zoom level
nodesToExpand_SkipLayer(bs, ex, z) ==
  {n \in viewNodes(bs, ex) :
     bs[n].layer > z + 1 /\ ~viewIsGroupNode(bs, ex, n) /\ masterIsGroupNode(bs, n)}

\* zoomTo that also expands the buckets that are expanded already
nodesToExpand_NoFolderCheck(bs, ex, z) ==
  {n \in viewNodes(bs, ex) : bs[n].layer > z /\ masterIsGroupNode(bs, n)}

nodesToExpand(bs, ex, z) ==
  {n \in viewNodes(bs, ex) :
     /\ bs[n].layer > z
     /\ ~viewIsGroupNode(bs, ex, n)
     /\ masterIsGroupNode(bs, n)}

\* the collapse loop skips a node that an earlier collapse removed from the view
stillInView(bs, toCollapse) ==
  {n \in toCollapse : Ancestors(bs, n) \cap toCollapse = {}}

collapsedInPass(bs, ex, z) == stillInView(bs, nodesToCollapse(bs, ex, z))

\* the effect of collapsing the nodes col, then expanding the nodes exp
passResult(ex, col, exp) ==
  [expanded |-> expand(collapse(ex, col), exp),
   collapsed |-> Cardinality(col),
   expansions |-> Cardinality(exp),
   zoomChangedInLoop |-> (col # {} \/ exp # {})]

\* one execution of the body of the do-while loop
zoomPass(bs, ex, z) ==
  passResult(ex, collapsedInPass(bs, ex, z), nodesToExpand(bs, ex, z))

\* a loop whose body runs once
loopAgain_Once(p) == FALSE

\* the loop repeats while the pass changed something
loopAgain(p) == p.zoomChangedInLoop

\* a flag that only remembers the last pass
zoomChangedAfter_LastPass(zoomChanged, p) == p.zoomChangedInLoop

\* the flag the call returns, updated at the end of every pass
zoomChangedAfter(zoomChanged, p) == IF p.zoomChangedInLoop THEN TRUE ELSE zoomChanged

\* the call's bookkeeping after the pass p
afterPass(acc, p) ==
  [expanded |-> p.expanded,
   zoomChanged |-> zoomChangedAfter(acc.zoomChanged, p),
   iterations |-> acc.iterations + 1,
   collapsed |-> acc.collapsed + p.collapsed,
   expansions |-> acc.expansions + p.expansions,
   terminated |-> TRUE]

RECURSIVE zoomLoop(_, _, _, _)
zoomLoopFrom(bs, z, acc, fuel, p) ==
  IF ~loopAgain(p) THEN afterPass(acc, p)
  ELSE IF fuel = 0 THEN [afterPass(acc, p) EXCEPT !.terminated = FALSE]
  ELSE zoomLoop(bs, z, afterPass(acc, p), fuel - 1)

zoomLoop(bs, z, acc, fuel) ==
  zoomLoopFrom(bs, z, acc, fuel, zoomPass(bs, acc.expanded, z))

\* zoomTo(zoom): result of the loop and the returned flag
zoomTo(bs, ex, z) ==
  zoomLoop(bs, z,
           [expanded |-> ex, zoomChanged |-> FALSE, iterations |-> 0,
            collapsed |-> 0, expansions |-> 0, terminated |-> TRUE],
           MaxFuel)

zoomInTarget(z) == Max(minZoom, z - 1)
\* zoomOut clamped to maxZoom itself
zoomOutTarget_Unclamped(z) == Min(maxZoom, z + 1)

zoomOutTarget(z) == Min(maxZoom - 1, z + 1)

\* ------------------------------------------------------------------------
\* Timeframe and selection window
\* ------------------------------------------------------------------------
\* intervals compared as closed intervals
intervalsIntersect_Closed(start1, end1, start2, end2) == ~(end1 < start2 \/ start1 > end2)

intervalsIntersect(start1, end1, start2, end2) == ~(end1 <= start2 \/ start1 >= end2)

timeframeEquals(a, b) == a[1] = b[1] /\ a[2] = b[2]

Sentinel == [sentinel |-> TRUE, val |-> UNDEFINED_TIMEFRAME]
Own(v) == [sentinel |-> FALSE, val |-> v]

\* the bars of the chart: the view nodes that are not group nodes
bars(bs, ex) == {n \in viewNodes(bs, ex) : ~viewIsGroupNode(bs, ex, n)}

SetMin(S) == CHOOSE x \in S : \A y \in S : x <= y

\* A bounds rectangle is represented by the set of bars whose centre it contains.
getTimeframeFromBounds(bs, inFrame) ==
  IF inFrame = {} THEN Sentinel
  ELSE Own(<<SetMin({bs[n].start : n \in inFrame}), SetMax({bs[n].end : n \in inFrame})>>)

getBoundsFromTimeframe(bs, ex, tf) ==
  {n \in bars(bs, ex) : intervalsIntersect(bs[n].start, bs[n].end, tf[1], tf[2])}

\* a content rectangle that contains no bar
contentRect_NoBar(bs, ex) == {}

\* the content rectangle contains every bar
contentRect(bs, ex) == bars(bs, ex)

\* What a running handler has done so far: the engine's timeframe, the number
\* of filterChanged notifications sent, the bounds of the timeframe rectangle,
\* whether the tree changed since the last layout pass (stale geometry) and the
\* number of conversions that read stale geometry.
Handler(tf, rb) ==
  [tf |-> tf, notified |-> 0, bounds |-> rb, stale |-> FALSE, staleReads |-> 0]

\* updateGraph / a zoomTo that collapsed or expanded: the geometry is out of date
treeChanged(t) == [t EXCEPT !.stale = TRUE]

\* applyTimelineLayout(...): every bar gets its place and height
applyTimelineLayout(t) == [t EXCEPT !.stale = FALSE]

\* getTimeframeFromBounds / getBoundsFromTimeframe read node.layout
readGeometry(t) == IF t.stale THEN [t EXCEPT !.staleReads = @ + 1] ELSE t

onTimeframeChanged(t) == [t EXCEPT !.notified = @ + 1]

assignIfChanged(t, newTimeframe) ==
  IF newTimeframe.val[1] # t.tf.val[1] \/ newTimeframe.val[2] # t.tf.val[2]
  THEN onTimeframeChanged([t EXCEPT !.tf = newTimeframe])
  ELSE t

updateTimeframe(bs, t, bounds) ==
  assignIfChanged(readGeometry(t), getTimeframeFromBounds(bs, bounds))

\* TimeframeRectangle.setBounds(bounds, silent): the bounds-changed listener
\* (updateTimeframe) runs unless the change is silent
setBounds(bs, t, bounds, silent) ==
  IF silent THEN [t EXCEPT !.bounds = bounds]
  ELSE updateTimeframe(bs, [t EXCEPT !.bounds = bounds], bounds)

updateTimeframeRectFromTimeframe(bs, ex, show, t, silent) ==
  IF ~show THEN t
  ELSE setBounds(bs, readGeometry(t), getBoundsFromTimeframe(bs, ex, t.tf.val), silent)

\* set timeframe(value)
setTimeframe(bs, ex, show, t, value) ==
  updateTimeframeRectFromTimeframe(bs, ex, show, [t EXCEPT !.tf = value], FALSE)

\* Math.floor(n / 2 - n / 10) and Math.floor(n / 2 + n / 10), as 1-based positions
centerLow(n) == ((4 * n) \div 10) + 1
centerHigh(n) == ((6 * n) \div 10) + 1

\* centerTimeFrame(allBuckets): reads allBuckets[i].start of an undefined entry
\* (a TypeError) when the list is empty
centerThrows(bs) == Len(bs) = 0

centerTimeFrame(bs, ex, show, t) ==
  setTimeframe(bs, ex, show, t,
               Own(<<bs[centerLow(Len(bs))].start, bs[centerHigh(Len(bs))].end>>))

\* ------------------------------------------------------------------------
\* update(): the timeframe after the data changed
\* ------------------------------------------------------------------------
movedTimeframe(old, new) ==
  IF old[2] < new[1] THEN <<new[1], new[1] + (old[2] - old[1])>>
  ELSE IF old[1] > new[2] THEN <<new[2] - (old[2] - old[1]), new[2]>>
  ELSE old

placeTimeframe(bs, ex, show, t, newTimeFrame) ==
     IF show
     THEN IF t.tf.sentinel \/ ~timeframeEquals(t.tf.val, newTimeFrame.val)
          THEN IF ~t.tf.sentinel
               THEN onTimeframeChanged(
                      setTimeframe(bs, ex, show, t,
                                   [sentinel |-> newTimeFrame.sentinel,
                                    val |-> movedTimeframe(t.tf.val, newTimeFrame.val)]))
               ELSE updateTimeframeRectFromTimeframe(
                      bs, ex, show, updateTimeframe(bs, t, contentRect(bs, ex)), FALSE)
          ELSE onTimeframeChanged(onTimeframeChanged(t))
     ELSE onTimeframeChanged(onTimeframeChanged(
            setTimeframe(bs, ex, show, t, newTimeFrame)))

updateTimeframeAfterData(bs, ex, show, t) ==
  placeTimeframe(bs, ex, show, readGeometry(t),
                 getTimeframeFromBounds(bs, contentRect(bs, ex)))

\* ------------------------------------------------------------------------
\* Data items and the filter predicate
\* ------------------------------------------------------------------------
\* times before and after the epoch
MinTime == EpochZero - 1
Times == MinTime..MaxTime

\* an optional number: <<>> is undefined
Optional == {<<>>} \cup {<<t>> : t \in Times}

Points == {[type |-> "number", time |-> t] : t \in Times}
Spans == {[type |-> "span", start |-> a, end |-> b] : a \in Optional, b \in Optional}
Entries == Points \cup Spans

RECURSIVE EntryLists(_)
EntryLists(n) ==
  IF n = 0 THEN {<<>>}
  ELSE EntryLists(n - 1) \cup
       {Append(l, e) : l \in {x \in EntryLists(n - 1) : Len(x) = n - 1}, e \in Entries}

\* A data item, by what !item and getTimeRange(item) give for it.  The accessor
\* is a function of the item: it gives the same outcome every time it is called.
Items ==
  {[falsy |-> TRUE, range |-> [kind |-> "undefined"]]} \cup
  {[falsy |-> FALSE, range |-> r] :
     r \in {[kind |-> "throws"], [kind |-> "undefined"]} \cup
           {[kind |-> "array", entries |-> l] : l \in EntryLists(MaxEntries)} \cup
           {[kind |-> "span", span |-> sp] : sp \in Spans}}

\* typeof entry.start === 'undefined' || typeof entry.end === 'undefined'
undefinedBound(entry) == entry.start = <<>> \/ entry.end = <<>>

\* a time point compared with the start excluded
pointMatches_OpenStart(time, start, end) == start < time /\ time < end

\* a time point compared with the end included
pointMatches_ClosedEnd(time, start, end) == start <= time /\ time <= end

\* a time point of an array
pointMatches(time, start, end) == start <= time /\ time < end

\* a span that needs both bounds to match
spanMatches_Strict(entry, start, end) ==
  IF undefinedBound(entry) THEN FALSE
  ELSE intervalsIntersect(entry.start[1], entry.end[1], start, end)

\* a span, alone or in an array
spanMatches(entry, start, end) ==
  IF undefinedBound(entry) THEN TRUE
  ELSE intervalsIntersect(entry.start[1], entry.end[1], start, end)

entryMatches(entry, start, end) ==
  IF entry.type = "number" THEN pointMatches(entry.time, start, end)
  ELSE spanMatches(entry, start, end)

\* the part of filterPredicate after the accessor has returned timeEntry
rangeMatches(timeEntry, start, end) ==
  IF timeEntry.kind = "array"
  THEN \E i \in 1..Len(timeEntry.entries) : entryMatches(timeEntry.entries[i], start, end)
  ELSE IF timeEntry.kind = "span" THEN spanMatches(timeEntry.span, start, end)
  ELSE FALSE

\* a catch block that does not return: the call of line 740 throws again
caught_FallThrough == [result |-> FALSE, threw |-> TRUE, calls |-> 2]

\* the catch block of the guarded accessor call
caught == [result |-> FALSE, threw |-> FALSE, calls |-> 1]

\* the accessor call of line 740, made when the guarded call returned
secondCall(range, tf) ==
  IF range.kind = "throws"
  THEN [result |-> FALSE, threw |-> TRUE, calls |-> 2]
  ELSE [result |-> rangeMatches(range, tf[1], tf[2]), threw |-> FALSE, calls |-> 2]

\* filterPredicate(item): the result, whether an exception left the call and
\* how often the accessor was called
filterPredicate(item, tf) ==
  IF item.falsy THEN [result |-> FALSE, threw |-> FALSE, calls |-> 0]
  ELSE IF item.range.kind = "throws" THEN caught
  ELSE secondCall(item.range, tf)

\* ------------------------------------------------------------------------
\* The calendar and the granularity iterators
\* ------------------------------------------------------------------------
\* A Date is counted in days from the first day of FirstYear; the time of day
\* is kept apart (late: the instant lies after midnight), because the
\* iterators read the year, the month and the day of the month only.
FirstYear == 2023
LeapYears == {FirstYear + 1}

daysInYear(y) == IF y \in LeapYears THEN 366 ELSE 365

daysInMonth(y, m) ==
  IF m = 1 THEN (IF y \in LeapYears THEN 29 ELSE 28)
  ELSE IF m \in {3, 5, 8, 10} THEN 30 ELSE 31

RECURSIVE daysBeforeYear(_)
daysBeforeYear(y) == IF y <= FirstYear THEN 0 ELSE daysBeforeYear(y - 1) + daysInYear(y - 1)

RECURSIVE daysBeforeMonth(_, _)
daysBeforeMonth(y, m) == IF m = 0 THEN 0 ELSE daysBeforeMonth(y, m - 1) + daysInMonth(y, m - 1)

\* new Date(year, month, date): a month of 12 is January of the next year, a
\* date beyond the end of the month runs on into the next month
Date(y, m, d) ==
  daysBeforeYear(y + (m \div 12)) + daysBeforeMonth(y + (m \div 12), m % 12) + d - 1

RECURSIVE yearFrom(_, _)
yearFrom(n, y) == IF n < daysInYear(y) THEN y ELSE yearFrom(n - daysInYear(y), y + 1)

getFullYear(n) == yearFrom(n, FirstYear)

RECURSIVE monthFrom(_, _, _)
monthFrom(n, y, m) ==
  IF n < daysInMonth(y, m) THEN m ELSE monthFrom(n - daysInMonth(y, m), y, m + 1)

getMonth(n) == monthFrom(n - daysBeforeYear(getFullYear(n)), getFullYear(n), 0)

getDate(n) == n - Date(getFullYear(n), getMonth(n), 1) + 1

\* date.setDate(d)
setDate(n, d) == Date(getFullYear(n), getMonth(n), d)

\* date.setMonth(m)
setMonth(n, m) == Date(getFullYear(n), m, getDate(n))

\* date.setFullYear(y)
setFullYear(n, y) == Date(y, getMonth(n), getDate(n))

\* what a generator has yielded when its loop ends or its fuel is used up
Yield(interval, rest) ==
  [yielded |-> <<interval>> \o rest.yielded, terminated |-> rest.terminated]

Done == [yielded |-> <<>>, terminated |-> TRUE]
OutOfFuel == [yielded |-> <<>>, terminated |-> FALSE]

\* days: the loop from floor to ceiling
RECURSIVE daysLoop(_, _, _)
daysLoop(currentDate, ceiling, fuel) ==
  IF ~(currentDate < ceiling) THEN Done
  ELSE IF fuel = 0 THEN OutOfFuel
  ELSE Yield([start |-> currentDate,
              end |-> setDate(currentDate, getDate(currentDate) + 1),
              label |-> getDate(currentDate)],
             daysLoop(setDate(currentDate, getDate(currentDate) + 1), ceiling, fuel - 1))

\* new Date(end.getFullYear(), end.getMonth(), end.getDate())
daysCeiling_SameDay(end) == Date(getFullYear(end), getMonth(end), getDate(end))

\* new Date(end.getFullYear(), end.getMonth(), end.getDate() + 1)
daysCeiling(end) == Date(getFullYear(end), getMonth(end), getDate(end) + 1)

\* days(start, end)
days(start, end, fuel) ==
  daysLoop(Date(getFullYear(start), getMonth(start), getDate(start)), daysCeiling(end), fuel)

\* a test that misses the step from December to January
crossed_MonthOnly(start, currentDate) == getMonth(currentDate) > getMonth(start)

\* a week that is never clipped
crossed_Never(start, currentDate) == FALSE

\* currentDate.getMonth() > start.getMonth() ||
\* currentDate.getFullYear() > start.getFullYear()
crossed(start, currentDate) ==
  \/ getMonth(currentDate) > getMonth(start)
  \/ getFullYear(currentDate) > getFullYear(start)

\* the end of the week that starts at start, after currentDate was moved on by 7
weekEnd(start, moved) == IF crossed(start, moved) THEN setDate(moved, 1) ELSE moved

\* the value of week after the yield: week = 0 at a clipped week, then week++
nextWeek(start, moved, week) == (IF crossed(start, moved) THEN 0 ELSE week) + 1

\* weeks: the loop from floor to ceiling
RECURSIVE weeksLoop(_, _, _, _)
weeksLoop(currentDate, week, ceiling, fuel) ==
  IF ~(currentDate < ceiling) THEN Done
  ELSE IF fuel = 0 THEN OutOfFuel
  ELSE Yield([start |-> currentDate,
              end |-> weekEnd(currentDate, setDate(currentDate, getDate(currentDate) + 7)),
              label |-> week],
             weeksLoop(weekEnd(currentDate, setDate(currentDate, getDate(currentDate) + 7)),
                       nextWeek(currentDate,
                                setDate(currentDate, getDate(currentDate) + 7), week),
                       ceiling, fuel - 1))

\* new Date(start.getFullYear(), start.getMonth(), 1)
monthFloor(start) == Date(getFullYear(start), getMonth(start), 1)

\* new Date(end.getFullYear(), end.getMonth() + 1, 1)
monthCeiling(end) == Date(getFullYear(end), getMonth(end) + 1, 1)

\* weeks(start, end)
weeks(start, end, fuel) == weeksLoop(monthFloor(start), 1, monthCeiling(end), fuel)

\* months: the loop from floor to ceiling
RECURSIVE monthsLoop(_, _, _)
monthsLoop(currentDate, ceiling, fuel) ==
  IF ~(currentDate < ceiling) THEN Done
  ELSE IF fuel = 0 THEN OutOfFuel
  ELSE Yield([start |-> currentDate,
              end |-> setMonth(currentDate, getMonth(currentDate) + 1),
              label |-> getMonth(currentDate)],
             monthsLoop(setMonth(currentDate, getMonth(currentDate) + 1), ceiling, fuel - 1))

\* months(start, end)
months(start, end, fuel) == monthsLoop(monthFloor(start), monthCeiling(end), fuel)

\* years: the loop from floor to ceiling
RECURSIVE yearsLoop(_, _, _)
yearsLoop(currentDate, ceiling, fuel) ==
  IF ~(currentDate < ceiling) THEN Done
  ELSE IF fuel = 0 THEN OutOfFuel
  ELSE Yield([start |-> currentDate,
              end |-> setFullYear(currentDate, getFullYear(currentDate) + 1),
              label |-> getFullYear(currentDate)],
             yearsLoop(setFullYear(currentDate, getFullYear(currentDate) + 1), ceiling,
                       fuel - 1))

\* years(start, end)
years(start, end, fuel) ==
  yearsLoop(Date(getFullYear(start), 0, 1), Date(getFullYear(end) + 1, 0, 1), fuel)

\* The ranges the iterators are called with: a start among the MaxStartDays
\* days from 20 December of FirstYear on and an end at most MaxSpanDays days
\* later, each at midnight or later in the day.
FirstStart == Date(FirstYear, 11, 20)
Starts == [day : FirstStart..(FirstStart + MaxStartDays - 1), late : BOOLEAN]
Ends(start) ==
  {e \in [day : start.day..(start.day + MaxSpanDays), late : BOOLEAN] :
     e.day = start.day => (start.late => e.late)}

NoCalendar == [called |-> FALSE]

\* ------------------------------------------------------------------------
\* Numbers: the quotient and the product of the bar-scaling stage
\* ------------------------------------------------------------------------
\* A JavaScript number is a binary floating-point number with a significand of
\* Mantissa bits. A positive number is kept as its significand (the bits, most
\* significant first, the first one 1) and the exponent of its last bit; every
\* result is rounded to the nearest such number, ties to the even significand.
Mantissa == 53

Zero == [zero |-> TRUE, bits |-> <<>>, exp |-> 0]

\* the binary digits of a natural number, most significant first
RECURSIVE bitsOf(_)
bitsOf(n) == IF n = 0 THEN <<>> ELSE Append(bitsOf(n \div 2), n % 2)

RECURSIVE zeros(_)
zeros(n) == IF n = 0 THEN <<>> ELSE Append(zeros(n - 1), 0)

\* the significand plus one unit in the last place
RECURSIVE increment(_)
increment(bits) ==
  IF bits = <<>> THEN <<1>>
  ELSE IF bits[Len(bits)] = 0 THEN Append(SubSeq(bits, 1, Len(bits) - 1), 1)
  ELSE Append(increment(SubSeq(bits, 1, Len(bits) - 1)), 0)

\* a significand that grew to Mantissa + 1 bits ends with 0: drop that bit
normalised(bits, exp) ==
  IF Len(bits) > Mantissa
  THEN [zero |-> FALSE, bits |-> SubSeq(bits, 1, Mantissa), exp |-> exp + 1]
  ELSE [zero |-> FALSE, bits |-> bits, exp |-> exp]

\* round to nearest, ties to even: digits holds at least Mantissa + 1 bits, exp
\* is the exponent of its last bit, sticky says that the exact value has
\* further non-zero bits behind digits
rounded(digits, exp, sticky) ==
  IF /\ digits[Mantissa + 1] = 1
     /\ \/ sticky
        \/ \E i \in (Mantissa + 2)..Len(digits) : digits[i] = 1
        \/ digits[Mantissa] = 1
  THEN normalised(increment(SubSeq(digits, 1, Mantissa)), exp + Len(digits) - Mantissa)
  ELSE normalised(SubSeq(digits, 1, Mantissa), exp + Len(digits) - Mantissa)

\* a natural number as a number: exact, n has fewer than Mantissa bits
fromInt(n) ==
  IF n = 0 THEN Zero
  ELSE [zero |-> FALSE, bits |-> bitsOf(n) \o zeros(Mantissa - Len(bitsOf(n))),
        exp |-> Len(bitsOf(n)) - Mantissa]

\* long division: the digits of the quotient so far (without leading zeros),
\* the remainder r and the number of digits behind the binary point
RECURSIVE quotientDigits(_, _, _, _)
quotientDigits(r, m, digits, places) ==
  IF Len(digits) = Mantissa + 1
  THEN rounded(digits, 0 - places, r # 0)
  ELSE quotientDigits((2 * r) % m, m,
                      IF digits = <<>> /\ (2 * r) \div m = 0 THEN <<>>
                      ELSE Append(digits, (2 * r) \div m),
                      places + 1)

\* h / m for natural numbers h > 0 and m > 0
divide(h, m) == quotientDigits(h % m, m, bitsOf(h \div m), 0)

\* the digits of bits * v, from the last bit on with a carry
RECURSIVE productDigits(_, _, _, _, _)
productDigits(bits, v, i, carry, digits) ==
  IF i = 0 THEN bitsOf(carry) \o digits
  ELSE productDigits(bits, v, i - 1, (bits[i] * v + carry) \div 2,
                     <<(bits[i] * v + carry) % 2>> \o digits)

\* v * x for a natural number v and a number x
times(v, x) ==
  IF v = 0 \/ x.zero THEN Zero
  ELSE rounded(productDigits(x.bits, v, Mantissa, 0, <<>>) \o <<0>>, x.exp - 1, FALSE)

\* x < y for numbers that are zero or positive
lessThan(x, y) ==
  IF y.zero THEN FALSE
  ELSE IF x.zero THEN TRUE
  ELSE \/ x.exp < y.exp
       \/ /\ x.exp = y.exp
          /\ \E i \in 1..Mantissa :
               /\ x.bits[i] < y.bits[i]
               /\ \A j \in 1..(i - 1) : x.bits[j] = y.bits[j]

\* ------------------------------------------------------------------------
\* The bar-scaling stage of the layout
\* ------------------------------------------------------------------------
\* a scaling that takes every group node for a node of the active layer
inActiveLayer_AnyGroup(tag, z) == tag.type = "group"

\* tag?.type === 'group' && tag.layer === this.zoom
inActiveLayer(tag, z) == tag.type = "group" /\ tag.layer = z

\* maxValue after the first forEach
RECURSIVE maxValueUpTo(_, _, _)
maxValueUpTo(nodes, z, k) ==
  IF k = 0 THEN 0
  ELSE IF inActiveLayer(nodes[k], z)
       THEN Max(maxValueUpTo(nodes, z, k - 1), nodes[k].aggregatedValue)
       ELSE maxValueUpTo(nodes, z, k - 1)

\* const scale = maxValue > 0 ? this.maxHeight / maxValue : 1
scaleOf(maxHeight, maxValue) ==
  IF maxValue > 0 THEN divide(maxHeight, maxValue) ELSE fromInt(1)

\* the second forEach: the height of every group node; the other nodes keep
\* their height
heightsOf(nodes, scale) ==
  [k \in 1..Len(nodes) |->
     IF nodes[k].type = "group" THEN times(nodes[k].aggregatedValue, scale)
     ELSE fromInt(nodes[k].height)]

\* BarScalingStage.applyLayoutImpl(graph)
applyLayoutImpl(nodes, maxHeight, z) ==
  heightsOf(nodes, scaleOf(maxHeight, maxValueUpTo(nodes, z, Len(nodes))))

NoScaling == [ran |-> FALSE]

\* ------------------------------------------------------------------------
\* The animation-end listeners
\* ------------------------------------------------------------------------
Listeners == 1..MaxListeners

\* delegate.combine(a, b): a delegate that invokes the functions of a, then b
combine(list, listener) == Append(list, listener)

\* how often the delegate invokes the listener
RECURSIVE invocations(_, _)
invocations(list, listener) ==
  IF list = <<>> THEN 0
  ELSE invocations(Tail(list), listener) + (IF Head(list) = listener THEN 1 ELSE 0)

\* private animationEndListener: (() => void) | null = null
NoListeners ==
  [list |-> <<>>, op |-> "none", listener |-> 0, before |-> 0, removed |-> {},
   invoked |-> [l \in Listeners |-> 0]]

\* ------------------------------------------------------------------------
\* Web worker registration
\* ------------------------------------------------------------------------
\* what a worker can send
WorkerMessages == {"ready", "licensed", "other"}

\* let license = null; no handler, no promise, no message
NoWorker ==
  [license |-> FALSE, handler |-> FALSE, promise |-> "none", op |-> "none",
   threw |-> FALSE, posted |-> <<>>, inbox |-> <<>>, sent |-> 0, licensedSent |-> FALSE,
   readyHandled |-> 0]

\* a handler that takes 'ready' for 'licensed'
onmessage_ResolveOnReady(w, data) ==
  IF data = "ready" \/ data = "licensed" THEN [w EXCEPT !.promise = "resolved"] ELSE w

\* worker.onmessage = event => { ... }
onmessage(w, data) ==
  IF data = "ready" THEN [w EXCEPT !.posted = Append(@, "license")]
  ELSE IF data = "licensed" THEN [w EXCEPT !.promise = "resolved"]
  ELSE w

\* registerWebWorker(worker)
registerWebWorker(w) ==
  IF ~w.license THEN [w EXCEPT !.op = "register", !.threw = TRUE]
  ELSE [w EXCEPT !.op = "register", !.threw = FALSE, !.handler = TRUE,
                 !.promise = "pending", !.posted = Append(@, "check-is-ready")]

\* how often a message was posted to the worker
RECURSIVE posts(_, _)
posts(posted, message) ==
  IF posted = <<>> THEN 0
  ELSE posts(Tail(posted), message) + (IF Head(posted) = message THEN 1 ELSE 0)

\* ------------------------------------------------------------------------
\* The Timeline component
\* ------------------------------------------------------------------------
\* Engines are numbered in the order of their construction; NoEngine is the
\* null of the reducer's initial state. The dataItems prop is a version number.
NoEngine == 0

NoAssignment == [engine |-> NoEngine, live |-> TRUE, dataItems |-> 0]

\* the component after its first render: container is null, so the first
\* effect returned at once and the second found no engine
Mounted ==
  [container |-> FALSE, dataItems |-> 0, engine |-> NoEngine, dispatched |-> NoEngine,
   deps1 |-> <<FALSE, 0>>, deps2 |-> <<NoEngine, 0>>, cleanup |-> NoEngine,
   live |-> {}, created |-> 0, assigned |-> NoAssignment]

\* timelineReducer(state, action) for the action { engine }, at the next render
timelineReducer(tl) ==
  IF tl.dispatched = NoEngine THEN tl
  ELSE [tl EXCEPT !.engine = tl.dispatched, !.dispatched = NoEngine]

\* return () => engine.cleanUp(), run before the effect runs again
cleanupEffect(tl) ==
  [tl EXCEPT !.live = @ \ {tl.cleanup}, !.cleanup = NoEngine]

\* the body of the first effect
createEngine(tl) ==
  IF ~tl.container THEN tl
  ELSE [tl EXCEPT !.created = @ + 1, !.live = @ \cup {tl.created + 1},
                  !.dispatched = tl.created + 1, !.cleanup = tl.created + 1]

\* useEffect(..., [container, dataItems, dispatch])
engineEffect(tl) ==
  IF tl.deps1 = <<tl.container, tl.dataItems>> THEN tl
  ELSE createEngine(cleanupEffect([tl EXCEPT !.deps1 = <<tl.container, tl.dataItems>>]))

\* useEffect(() => { if (engine) { engine.items = dataItems } }, [engine, dataItems]):
\* engine is the one of the render the effect belongs to
itemsEffect(tl) ==
  IF tl.deps2 = <<tl.engine, tl.dataItems>> THEN tl
  ELSE IF tl.engine = NoEngine THEN [tl EXCEPT !.deps2 = <<tl.engine, tl.dataItems>>]
  ELSE [tl EXCEPT !.deps2 = <<tl.engine, tl.dataItems>>,
                  !.assigned = [engine |-> tl.engine, live |-> tl.engine \in tl.live,
                                dataItems |-> tl.dataItems]]

\* a render and the effects of its commit, in their order in the component
render(tl) == itemsEffect(engineEffect(timelineReducer(tl)))

\* ------------------------------------------------------------------------
\* The engine as a state machine
\* ------------------------------------------------------------------------
NoCall ==
  [op |-> "new", z |-> CtorZoom, pre |-> <<>>, ret |-> FALSE, iterations |-> 1,
   collapsed |-> 0, expansions |-> 0, terminated |-> TRUE, thrown |-> FALSE,
   notified |-> 0, staleReads |-> 0, changed |-> FALSE, before |-> Sentinel]

NoItem == [falsy |-> TRUE, range |-> [kind |-> "undefined"]]
NoProbe == [done |-> FALSE, item |-> NoItem, result |-> FALSE, threw |-> FALSE, calls |-> 0]
NoSpan == [width1 |-> FALSE, contains |-> {}]
NoQuery == [fn |-> "none", bounds |-> {}, order |-> <<>>, result |-> Sentinel, back |-> NoSpan]

\* the state after new TimelineEngine(...): no buckets, zoomTo(2) on the empty graph
Init ==
  /\ buckets = <<>>
  /\ expanded = <<>>
  /\ zoom = CtorZoom
  /\ timeframe = Sentinel
  /\ showTimeframeRectangle \in BOOLEAN
  /\ changeLayout = FALSE
  /\ probe = NoProbe
  /\ last = NoCall
  /\ timers = 0
  /\ rectBounds = {}
  /\ query = NoQuery
  /\ calendar = NoCalendar
  /\ scaling = NoScaling
  /\ animationEndListener = NoListeners
  /\ webworker = NoWorker
  /\ sentinelValue = UNDEFINED_TIMEFRAME
  /\ cleanedUp = FALSE
  /\ timelineComponent = Mounted

\* what every operation records about the state it started in
Started(op) == [NoCall EXCEPT !.op = op, !.z = zoom, !.pre = expanded, !.iterations = 0]

\* what a handler that ran with the record t did to the timeframe
Ended(call, t) ==
  [call EXCEPT !.notified = t.notified, !.staleReads = t.staleReads,
               !.changed = (t.tf.val # timeframe.val)]

\* the initial folder state of the view nodes of a rebuilt graph: the folding
\* view's default is the same for every group node
InitialFolderStates == BOOLEAN

\* update() from centerTimeFrame on; the TypeError of centerTimeFrame ends it
updateData(bs, ex, show, t0) ==
  IF centerThrows(bs) THEN t0
  ELSE updateTimeframeAfterData(bs, ex, show, centerTimeFrame(bs, ex, show, t0))

\* update() that lays out only at its end
update_LayoutLast(bs, ex, show, t) ==
  applyTimelineLayout(updateData(bs, ex, show, treeChanged(t)))

\* update(): updateGraph and zoomTo, then applyTimelineLayout, then the timeframe
update(bs, ex, show, t) ==
  updateData(bs, ex, show, applyTimelineLayout(treeChanged(t)))

\* update() writes newTimeFrame[0] and newTimeFrame[1]; newTimeFrame is the
\* UNDEFINED_TIMEFRAME array itself when getTimeframeFromBounds found no bar
writtenByUpdate(t, newTimeFrame, show, elements) ==
  IF show /\ newTimeFrame.sentinel /\ ~t.tf.sentinel
          /\ ~timeframeEquals(t.tf.val, newTimeFrame.val)
  THEN movedTimeframe(t.tf.val, newTimeFrame.val)
  ELSE elements

\* the elements of the UNDEFINED_TIMEFRAME array after update()
undefinedAfterUpdate(bs, ex, show, t0, elements) ==
  IF centerThrows(bs) THEN elements
  ELSE writtenByUpdate(centerTimeFrame(bs, ex, show, applyTimelineLayout(treeChanged(t0))),
                       getTimeframeFromBounds(bs, contentRect(bs, ex)), show, elements)

\* set items(items): update(), for the items of one of the given bucket trees
SetItemsFrom(trees) ==
  \E bs \in trees, d \in InitialFolderStates :
   \E fresh \in {setFolderState(bs, Nodes(bs), d, Len(bs))} :
    \E r \in {zoomTo(bs, fresh, zoom)} :
     \E t \in {update(bs, r.expanded, showTimeframeRectangle, Handler(timeframe, {}))} :
       /\ buckets' = bs
       /\ expanded' = r.expanded
       /\ zoom' = zoom
       /\ timeframe' = t.tf
       /\ rectBounds' = t.bounds
       /\ last' = [Ended(Started("setItems"), t) EXCEPT
                     !.pre = fresh, !.ret = r.zoomChanged,
                     !.iterations = r.iterations, !.collapsed = r.collapsed,
                     !.expansions = r.expansions, !.terminated = r.terminated,
                     !.thrown = centerThrows(bs), !.before = timeframe]
       /\ query' = NoQuery
       /\ sentinelValue' = undefinedAfterUpdate(bs, r.expanded, showTimeframeRectangle,
                                                Handler(timeframe, {}), sentinelValue)
       /\ UNCHANGED <<showTimeframeRectangle, changeLayout, probe, timers, calendar, scaling, animationEndListener, webworker, cleanedUp, timelineComponent>>

\* set items(items)
SetItems == SetItemsFrom(BucketTrees)

\* updateZoom after a zoomIn/zoomOut that returned true, with a rectangle
\* update that notifies
afterZoom_Loud(bs, ex, show, t) ==
  updateTimeframeRectFromTimeframe(bs, ex, show, applyTimelineLayout(treeChanged(t)), FALSE)

\* updateZoom after a zoomIn/zoomOut that returned true: applyTimelineLayout,
\* updateViewPort, updateTimeframeRectFromTimeframe(true)
afterZoom(bs, ex, show, t) ==
  updateTimeframeRectFromTimeframe(bs, ex, show, applyTimelineLayout(treeChanged(t)), TRUE)

\* updateZoom(evt): the mouse wheel listener
Wheel ==
  \E wheelDelta \in {-1, 0, 1} :
   \E target \in {IF wheelDelta > 0 THEN zoomInTarget(zoom) ELSE zoomOutTarget(zoom)} :
    \E r \in {zoomTo(buckets, expanded, target)} :
     \E t \in {IF r.zoomChanged
               THEN afterZoom(buckets, r.expanded, showTimeframeRectangle,
                              Handler(timeframe, rectBounds))
               ELSE Handler(timeframe, rectBounds)} :
       IF wheelDelta = 0
       THEN /\ last' = Started("wheel0")
            /\ UNCHANGED <<buckets, expanded, zoom, timeframe, showTimeframeRectangle,
                           changeLayout, probe, timers, rectBounds, query, calendar, scaling, animationEndListener, webworker, sentinelValue, cleanedUp, timelineComponent>>
       ELSE /\ expanded' = r.expanded
            /\ zoom' = target
            /\ timeframe' = t.tf
            /\ rectBounds' = t.bounds
            /\ last' = [Ended(Started(IF wheelDelta > 0 THEN "zoomIn" ELSE "zoomOut"), t)
                          EXCEPT
                          !.z = target, !.ret = r.zoomChanged,
                          !.iterations = r.iterations, !.collapsed = r.collapsed,
                          !.expansions = r.expansions, !.terminated = r.terminated]
            /\ query' = NoQuery
            /\ UNCHANGED <<buckets, showTimeframeRectangle, changeLayout, probe, timers, calendar, scaling, animationEndListener, webworker, sentinelValue, cleanedUp, timelineComponent>>

MaxTimers == 2

\* a listener that schedules on every height change
schedules_Always(heightChanged, flag) == heightChanged

\* evt.oldSize.height !== this.graphComponent.size.height && !changeLayout
schedules(heightChanged, flag) == heightChanged /\ ~flag

\* the size-changed listener of the constructor
Resize ==
  \E heightChanged \in BOOLEAN :
   \E sched \in {schedules(heightChanged, changeLayout)} :
    /\ sched => timers < MaxTimers
    /\ changeLayout' = IF sched THEN TRUE ELSE changeLayout
    /\ timers' = IF sched THEN timers + 1 ELSE timers
    /\ last' = [Started(IF heightChanged THEN "resize" ELSE "resizeWidth") EXCEPT
                  !.ret = sched]
    /\ UNCHANGED <<buckets, expanded, zoom, timeframe, showTimeframeRectangle, probe,
                   rectBounds, query, calendar, scaling, animationEndListener, webworker, sentinelValue, cleanedUp, timelineComponent>>

\* the timer callback after changeLayout = false: applyTimelineLayout,
\* updateViewPort, centerTimeFrame
recompute(bs, ex, show, t0) ==
  IF centerThrows(bs) THEN applyTimelineLayout(t0)
  ELSE centerTimeFrame(bs, ex, show, applyTimelineLayout(t0))

\* the callback of the 500 ms timer set by the size-changed listener
Timer ==
  /\ timers > 0
  /\ timers' = timers - 1
  /\ changeLayout' = FALSE
  /\ \E t \in {recompute(buckets, expanded, showTimeframeRectangle,
                          Handler(timeframe, rectBounds))} :
        /\ timeframe' = t.tf
        /\ rectBounds' = t.bounds
        /\ last' = [Ended(Started("timer"), t) EXCEPT !.thrown = centerThrows(buckets)]
  /\ UNCHANGED <<buckets, expanded, zoom, showTimeframeRectangle, probe, query, calendar, scaling, animationEndListener, webworker, sentinelValue, cleanedUp, timelineComponent>>

\* the bars between the bars i and j, in time order
Between(bs, ex, i, j) ==
  {n \in bars(bs, ex) : bs[i].start <= bs[n].start /\ bs[n].start <= bs[j].start}

\* the windows the timeframe rectangle can be moved to: a run of bars, or no bar
Windows(bs, ex) ==
  {{}} \cup {Between(bs, ex, i, j) : i \in bars(bs, ex), j \in bars(bs, ex)}

\* the user drags or resizes the timeframe rectangle: its bounds-changed
\* listener calls updateTimeframe(bounds)
MoveSelection ==
  /\ showTimeframeRectangle
  /\ \E B \in Windows(buckets, expanded) :
      \E t \in {setBounds(buckets, Handler(timeframe, rectBounds), B, FALSE)} :
        /\ timeframe' = t.tf
        /\ rectBounds' = t.bounds
        /\ last' = Ended(Started("moveSelection"), t)
  /\ UNCHANGED <<buckets, expanded, zoom, showTimeframeRectangle, changeLayout, probe,
                 timers, query, calendar, scaling, animationEndListener, webworker, sentinelValue, cleanedUp, timelineComponent>>

Timeframes == {<<a, b>> : a \in Times, b \in Times}

\* engine.timeframe = value, the public setter
SetTimeframe ==
  \E value \in {v \in Timeframes : v[1] <= v[2]} :
    \E t \in {setTimeframe(buckets, expanded, showTimeframeRectangle,
                           Handler(timeframe, rectBounds), Own(value))} :
      /\ timeframe' = t.tf
      /\ rectBounds' = t.bounds
      /\ probe' = NoProbe
      /\ last' = Ended(Started("setTimeframe"), t)
      /\ UNCHANGED <<buckets, expanded, zoom, showTimeframeRectangle, changeLayout,
                     timers, query, calendar, scaling, animationEndListener, webworker, sentinelValue, cleanedUp, timelineComponent>>

Next == SetItems \/ Wheel \/ Resize \/ Timer \/ MoveSelection

Spec == Init /\ [][Next]_vars

\* ------------------------------------------------------------------------
\* zoomTo(z) called directly with any zoom level on a running engine
\* ------------------------------------------------------------------------
ZoomLevels == minZoom..(maxZoom - 1)

ZoomToCall ==
  \E z \in ZoomLevels :
    \E r \in {zoomTo(buckets, expanded, z)} :
       /\ expanded' = r.expanded
       /\ zoom' = z
       /\ last' = [Started("zoomTo") EXCEPT
                     !.z = z, !.ret = r.zoomChanged,
                     !.iterations = r.iterations, !.collapsed = r.collapsed,
                     !.expansions = r.expansions, !.terminated = r.terminated]
       /\ query' = NoQuery
       /\ UNCHANGED <<buckets, timeframe, showTimeframeRectangle, changeLayout, probe,
                      timers, rectBounds, calendar, scaling, animationEndListener, webworker, sentinelValue, cleanedUp, timelineComponent>>

NextZoom == SetItems \/ Wheel \/ ZoomToCall

SpecZoom == Init /\ [][NextZoom]_vars

\* ------------------------------------------------------------------------
\* The conversions between bounds and timeframes as the code computes them,
\* over the view graph's nodes in their iteration order
\* ------------------------------------------------------------------------
RECURSIVE Perms(_)
Perms(S) ==
  IF S = {} THEN {<<>>}
  ELSE UNION {{<<x>> \o q : q \in Perms(S \ {x})} : x \in S}

\* graph.nodes.filter(node => !graph.isGroupNode(node))
\*            .filter(node => bounds.contains(node.layout.center))
\* with a filter that keeps the group nodes
nodesInFrame_Groups(bs, ex, order, inBounds) ==
  SelectSeq(order, LAMBDA n : n \in inBounds)

nodesInFrame(bs, ex, order, inBounds) ==
  SelectSeq(SelectSeq(order, LAMBDA n : ~viewIsGroupNode(bs, ex, n)),
            LAMBDA n : n \in inBounds)

\* the reducers of getTimeframeFromBounds
earlier(bs, start, current) == IF bs[current].start < bs[start].start THEN current ELSE start
later(bs, end, current) == IF bs[current].end > bs[end].end THEN current ELSE end

RECURSIVE reduceEarlier(_, _, _)
reduceEarlier(bs, seq, k) ==
  IF k = 1 THEN seq[1] ELSE earlier(bs, reduceEarlier(bs, seq, k - 1), seq[k])

RECURSIVE reduceLater(_, _, _)
reduceLater(bs, seq, k) ==
  IF k = 1 THEN seq[1] ELSE later(bs, reduceLater(bs, seq, k - 1), seq[k])

frameOf(bs, inFrame) ==
  IF Len(inFrame) = 0 THEN Sentinel
  ELSE Own(<<bs[reduceEarlier(bs, inFrame, Len(inFrame))].start,
             bs[reduceLater(bs, inFrame, Len(inFrame))].end>>)

\* getTimeframeFromBounds(bounds), the view nodes iterated in the given order;
\* inBounds are the view nodes whose centre the bounds contain
getTimeframeFromBoundsIn(bs, ex, order, inBounds) ==
  frameOf(bs, nodesInFrame(bs, ex, order, inBounds))

\* a call of getTimeframeFromBounds on a view graph of up to MaxQueryNodes
\* nodes; the call changes nothing in the engine, and one call is observed per
\* view graph. The bounds are those of the timeframe rectangle (updateTimeframe)
\* or, in update(), the content rectangle, which contains every node.
TimeframeFromBounds ==
  /\ query.fn = "none"
  /\ Cardinality(viewNodes(buckets, expanded)) <= MaxQueryNodes
  /\ \E inBounds \in (IF showTimeframeRectangle
                       THEN SUBSET viewNodes(buckets, expanded)
                       ELSE {viewNodes(buckets, expanded)}) :
      \E order \in Perms(viewNodes(buckets, expanded)) :
        query' = [fn |-> "getTimeframeFromBounds", bounds |-> inBounds, order |-> order,
                  result |-> getTimeframeFromBoundsIn(buckets, expanded, order, inBounds),
                  back |-> NoSpan]
  /\ UNCHANGED <<buckets, expanded, zoom, timeframe, showTimeframeRectangle,
                 changeLayout, probe, last, timers, rectBounds, calendar, scaling, animationEndListener, webworker, sentinelValue, cleanedUp, timelineComponent>>

\* the view graph's nodes in the order in which the graph builder created them
creationOrder(bs, ex) ==
  SelectSeq([i \in 1..Len(bs) |-> i], LAMBDA n : viewContains(bs, ex, n))

\* graph.nodes.filter(node => !graph.isGroupNode(node))
\*            .filter(node => intervalsIntersect(bucket.start, bucket.end, ...))
nodesInTimeframe(bs, ex, tf) ==
  {n \in viewNodes(bs, ex) :
     /\ ~viewIsGroupNode(bs, ex, n)
     /\ intervalsIntersect(bs[n].start, bs[n].end, tf[1], tf[2])}

\* The layout puts the bars side by side in the order of their buckets, so the
\* rectangle from the least x to the greatest maxX of the nodes S contains the
\* centres of the bars from the first to the last bar of S.
fromMinXToMaxX(bs, ex, S) ==
  {n \in bars(bs, ex) :
     /\ \E a \in S : bs[a].start <= bs[n].start
     /\ \E b \in S : bs[n].start <= bs[b].start}

spanOf(bs, ex, S) ==
  IF S = {} THEN [width1 |-> TRUE, contains |-> {}]
  ELSE [width1 |-> FALSE, contains |-> fromMinXToMaxX(bs, ex, S)]

\* getBoundsFromTimeframe(timeframe): the rectangle, by its width and the bars
\* whose centre it contains
getBoundsFromTimeframeSpan(bs, ex, tf) == spanOf(bs, ex, nodesInTimeframe(bs, ex, tf))

\* getBoundsFromTimeframe(getTimeframeFromBounds(B)) for a window B over a run
\* of bars; one call is observed per view graph
RoundTrip ==
  /\ query.fn = "none"
  /\ \E B \in Windows(buckets, expanded) :
      \E tf \in {getTimeframeFromBoundsIn(buckets, expanded,
                                         creationOrder(buckets, expanded), B)} :
        query' = [fn |-> "roundTrip", bounds |-> B,
                  order |-> creationOrder(buckets, expanded), result |-> tf,
                  back |-> getBoundsFromTimeframeSpan(buckets, expanded, tf.val)]
  /\ UNCHANGED <<buckets, expanded, zoom, timeframe, showTimeframeRectangle,
                 changeLayout, probe, last, timers, rectBounds, calendar, scaling, animationEndListener, webworker, sentinelValue, cleanedUp, timelineComponent>>

\* ------------------------------------------------------------------------
\* Properties of zoomTo
\* ------------------------------------------------------------------------
\* the last operation ran zoomTo(last.z) on the folder states last.pre
ZoomCalled == last.op \in {"zoomTo", "zoomIn", "zoomOut", "setItems"}

Leaves(bs) == {n \in Nodes(bs) : ~HasChildren(bs, n)}
PathTo(bs, n) == {n} \cup Ancestors(bs, n)

\* the buckets on the path to leaf that are collapsed at a layer >= z
collapsedOnPath(bs, ex, z, leaf) ==
  {b \in PathTo(bs, leaf) : ~ex[b] /\ bs[b].layer >= z}

layerCollapsed(bs, ex, z) ==
  \A n \in Nodes(bs) : (bs[n].layer = z /\ HasChildren(bs, n)) => ~ex[n]
coarserExpanded(bs, ex, z) ==
  \A n \in viewNodes(bs, ex) : (bs[n].layer > z /\ HasChildren(bs, n)) => ex[n]
finerInvisible(bs, ex, z) ==
  \A n \in Nodes(bs) : bs[n].layer < z => ~viewContains(bs, ex, n)

\* C1 as stated: after zoomTo(z) every root-to-leaf path has exactly one bucket
\* collapsed at a layer >= z, the buckets of layer z with children are
\* collapsed, the visible coarser ones with children are expanded and no finer
\* bucket is visible.
C1_AsStated ==
  ZoomCalled =>
    /\ \A leaf \in Leaves(buckets) :
         Cardinality(collapsedOnPath(buckets, expanded, last.z, leaf)) = 1
    /\ layerCollapsed(buckets, expanded, last.z)
    /\ coarserExpanded(buckets, expanded, last.z)
    /\ finerInvisible(buckets, expanded, last.z)

\* C1 (amended): after zoomTo(z) a root-to-leaf path has exactly one bucket
\* collapsed at a layer >= z when its leaf has a layer <= z, and none when it
\* ends in a childless bucket of a layer > z (that bucket is an expanded, empty
\* group); every bucket of layer z is collapsed, every visible bucket of a
\* layer > z is expanded, and no bucket of a layer < z is visible.
C1_Converged ==
  ZoomCalled =>
    /\ \A leaf \in Leaves(buckets) :
         Cardinality(collapsedOnPath(buckets, expanded, last.z, leaf)) =
           (IF buckets[leaf].layer <= last.z THEN 1 ELSE 0)
    /\ \A n \in Nodes(buckets) : buckets[n].layer = last.z => ~expanded[n]
    /\ \A n \in viewNodes(buckets, expanded) : buckets[n].layer > last.z => expanded[n]
    /\ finerInvisible(buckets, expanded, last.z)

\* a direct zoomTo call that collapsed and expanded buckets, on a tree with a
\* childless bucket above the zoom level and a leaf at or below it
C1_Witness ==
  /\ last.op = "zoomTo"
  /\ last.collapsed > 0 /\ last.expansions > 0
  /\ \E leaf \in Leaves(buckets) : buckets[leaf].layer > last.z
  /\ \E leaf \in Leaves(buckets) : buckets[leaf].layer <= last.z

\* C2: a second zoomTo(z) right after zoomTo(z) collapses and expands nothing,
\* returns false and leaves the folder states and the zoom level as they are.
C2_Idempotent ==
  ZoomCalled =>
    /\ zoom = last.z
    /\ zoomTo(buckets, expanded, last.z).collapsed = 0
    /\ zoomTo(buckets, expanded, last.z).expansions = 0
    /\ zoomTo(buckets, expanded, last.z).zoomChanged = FALSE
    /\ zoomTo(buckets, expanded, last.z).expanded = expanded

\* a zoomTo call that needed several changing passes
C2_Witness ==
  /\ last.op = "zoomTo"
  /\ last.iterations >= 3
  /\ last.collapsed > 0 /\ last.expansions > 0

LoopBound == TopLayer

\* C3: zoomTo terminates and its loop body runs at most 4 times.
C3_Terminates ==
  ZoomCalled => (last.terminated /\ last.iterations <= LoopBound)

\* a direct call from zoom 3 to zoom 1 whose loop ran 4 times
C3_Witness ==
  /\ last.op = "zoomTo"
  /\ last.z = minZoom
  /\ last.iterations = LoopBound
  /\ last.terminated

\* a direct call from zoom 1 to zoom 3
C3_WitnessOut ==
  /\ last.op = "zoomTo" /\ last.z = maxZoom - 1 /\ last.ret /\ last.terminated

ZoomInRange == zoom \in minZoom..(maxZoom - 1)

ZoomSteps ==
  /\ (last'.op = "zoomIn" => zoom' = Max(minZoom, zoom - 1))
  /\ (last'.op = "zoomOut" => zoom' = Min(maxZoom - 1, zoom + 1))
  /\ (zoom' # zoom => last'.op \in {"zoomIn", "zoomOut"})

\* C4: the zoom level is always one of 1, 2, 3 (in [minZoom, maxZoom)); zoomIn
\* moves it to max(minZoom, zoom - 1), zoomOut to min(maxZoom - 1, zoom + 1), and
\* nothing else moves it.
C4_ZoomClamped == []ZoomInRange /\ [][ZoomSteps]_vars

\* a zoomOut at the coarsest level on a non-empty tree
C4_Witness ==
  /\ last.op = "zoomOut" /\ zoom = maxZoom - 1 /\ ~last.ret /\ Len(buckets) > 0

\* C5: zoomTo returns true iff it collapsed or expanded a bucket, and then the
\* folder states differ from those before the call; when it returns false they
\* are the same.
C5_ReturnsChange ==
  ZoomCalled =>
    /\ last.ret <=> (last.collapsed + last.expansions > 0)
    /\ last.ret <=> (expanded # last.pre)

\* a call with a changing pass followed by a last pass that changed nothing
C5_Witness ==
  /\ last.op \in {"zoomIn", "zoomOut"}
  /\ last.ret /\ last.iterations >= 2 /\ Len(buckets) > 0

\* ------------------------------------------------------------------------
\* The filter under every timeframe
\* ------------------------------------------------------------------------
\* engine.filter(item); the call changes nothing in the engine, and one call is
\* observed per timeframe
Filter ==
  /\ ~probe.done
  /\ \E item \in Items :
       \E f \in {filterPredicate(item, timeframe.val)} :
         probe' = [done |-> TRUE, item |-> item, result |-> f.result,
                   threw |-> f.threw, calls |-> f.calls]
  /\ UNCHANGED <<buckets, expanded, zoom, timeframe, showTimeframeRectangle,
                 changeLayout, last, timers, rectBounds, query, calendar, scaling, animationEndListener, webworker, sentinelValue, cleanedUp, timelineComponent>>

NextFilter == SetTimeframe \/ Filter

SpecFilter == Init /\ [][NextFilter]_vars

\* ------------------------------------------------------------------------
\* Properties of the filter
\* ------------------------------------------------------------------------
PointItem(t) ==
  [falsy |-> FALSE,
   range |-> [kind |-> "array", entries |-> <<[type |-> "number", time |-> t]>>]]
SpanItem(a, b) ==
  [falsy |-> FALSE, range |-> [kind |-> "span", span |-> [type |-> "span", start |-> a, end |-> b]]]

tfStart == timeframe.val[1]
tfEnd == timeframe.val[2]

\* the half-open rule, written out
HalfOpen(entry) ==
  IF entry.type = "number" THEN tfStart <= entry.time /\ entry.time < tfEnd
  ELSE IF entry.start = <<>> \/ entry.end = <<>> THEN TRUE
  ELSE entry.start[1] < tfEnd /\ entry.end[1] > tfStart

Probed == probe.done /\ ~probe.item.falsy

\* C6 as stated: a time point t gives the same result as the zero-length span
\* {start: t, end: t}.
C6_AsStated ==
  \A t \in Times :
    (Probed /\ probe.item = PointItem(t)) =>
      probe.result = filterPredicate(SpanItem(<<t>>, <<t>>), timeframe.val).result

\* C6 (amended): a time point t matches iff start <= t < end and a span iff it
\* intersects [start, end); a point gives the same result as the zero-length
\* span {start: t, end: t} except for t = start of a non-empty timeframe, where
\* the point matches and the span does not; an array matches iff at least one of
\* its entries matches.
C6_HalfOpen ==
  /\ (Probed /\ probe.item.range.kind = "array") =>
       (probe.result <=>
          \E i \in 1..Len(probe.item.range.entries) : HalfOpen(probe.item.range.entries[i]))
  /\ (Probed /\ probe.item.range.kind = "span") =>
       (probe.result <=> HalfOpen(probe.item.range.span))
  /\ \A t \in Times :
       (Probed /\ probe.item = PointItem(t)) =>
         (filterPredicate(SpanItem(<<t>>, <<t>>), timeframe.val).result
            <=> (probe.result /\ t # tfStart))

\* a time point at the start of a non-empty timeframe
C6_Witness ==
  /\ Probed /\ probe.item = PointItem(tfStart)
  /\ tfStart < tfEnd
  /\ probe.result

\* C7: a span with an undefined start or end, alone or as an entry of an array,
\* matches under every timeframe, UNDEFINED_TIMEFRAME included.
C7_UndefinedBound ==
  /\ (Probed /\ probe.item.range.kind = "span" /\ undefinedBound(probe.item.range.span))
       => (probe.result /\ ~probe.threw)
  /\ (Probed /\ probe.item.range.kind = "array"
        /\ \E i \in 1..Len(probe.item.range.entries) :
             /\ probe.item.range.entries[i].type = "span"
             /\ undefinedBound(probe.item.range.entries[i]))
       => (probe.result /\ ~probe.threw)

\* a span without an end under the engine's initial UNDEFINED_TIMEFRAME
C7_Witness ==
  /\ Probed /\ timeframe.sentinel
  /\ probe.item.range.kind = "span"
  /\ probe.item.range.span.start # <<>> /\ probe.item.range.span.end = <<>>
  /\ probe.result

\* C8: when the accessor throws for an item, filter returns false, no exception
\* leaves the call and the accessor is called once; no filter call throws.
C8_AccessorThrows ==
  /\ (Probed /\ probe.item.range.kind = "throws")
       => (~probe.result /\ ~probe.threw /\ probe.calls = 1)
  /\ probe.done => ~probe.threw

\* a filter call on an item whose accessor throws, under a non-empty timeframe
C8_Witness ==
  /\ Probed /\ probe.item.range.kind = "throws"
  /\ tfStart < tfEnd

Jan1 == MinTime
Jan15 == Jan1 + 1
Feb1 == Jan15 + 1

\* C9 as stated: under the timeframe [Jan1, Feb1) the items {start: Jan1} and
\* {start: Jan15} match and the item {start: Feb1} does not.
C9_AsStated ==
  (Probed /\ timeframe.val = <<Jan1, Feb1>>) =>
    /\ (probe.item = SpanItem(<<Jan1>>, <<>>) => probe.result)
    /\ (probe.item = SpanItem(<<Jan15>>, <<>>) => probe.result)
    /\ (probe.item = SpanItem(<<Feb1>>, <<>>) => ~probe.result)

\* C9 (amended): under the timeframe [Jan1, Feb1) the time points [Jan1] and
\* [Jan15] match and the time point [Feb1], equal to the end, does not.
C9_PointAtEnd ==
  (Probed /\ timeframe.val = <<Jan1, Feb1>>) =>
    /\ (probe.item = PointItem(Jan1) => probe.result)
    /\ (probe.item = PointItem(Jan15) => probe.result)
    /\ (probe.item = PointItem(Feb1) => ~probe.result)

\* the time point at the end of the timeframe
C9_Witness ==
  /\ Probed /\ timeframe.val = <<Jan1, Feb1>>
  /\ probe.item = PointItem(Feb1) /\ ~probe.result

\* ------------------------------------------------------------------------
\* Properties of the empty timeline
\* ------------------------------------------------------------------------
\* C10 as stated: with an empty bucket list, items = [] and the recomputation
\* after a resize complete without throwing and leave UNDEFINED_TIMEFRAME.
C10_EmptyIsValid ==
  (last.op \in {"setItems", "timer"} /\ Len(buckets) = 0) =>
    (~last.thrown /\ timeframe.sentinel)

\* ------------------------------------------------------------------------
\* The filter under UNDEFINED_TIMEFRAME
\* ------------------------------------------------------------------------
\* C11 as stated: while the timeframe is UNDEFINED_TIMEFRAME the filter
\* returns false for every item.
C11_AsStated ==
  (probe.done /\ timeframe.val = UNDEFINED_TIMEFRAME) => ~probe.result

\* a span with a missing bound, or one that starts before and ends after the epoch
AlwaysOrStraddles(entry) ==
  /\ entry.type = "span"
  /\ \/ entry.start = <<>>
     \/ entry.end = <<>>
     \/ (entry.start[1] < EpochZero /\ entry.end[1] > EpochZero)

\* C11 (amended): while the timeframe is UNDEFINED_TIMEFRAME the filter returns
\* false for every time point, every array of time points and every span with
\* both bounds that does not straddle the epoch; it returns true for a span
\* with a missing bound and for a span with start < 0 < end, alone or as an
\* entry of an array.
C11_EmptyTimeframe ==
  (probe.done /\ timeframe.val = UNDEFINED_TIMEFRAME) =>
    (probe.result <=>
       /\ ~probe.item.falsy
       /\ \/ /\ probe.item.range.kind = "span"
             /\ AlwaysOrStraddles(probe.item.range.span)
          \/ /\ probe.item.range.kind = "array"
             /\ \E i \in 1..Len(probe.item.range.entries) :
                  AlwaysOrStraddles(probe.item.range.entries[i]))

\* a span that straddles the epoch, probed under the engine's initial timeframe
C11_Witness ==
  /\ Probed /\ timeframe.sentinel
  /\ probe.item = SpanItem(<<MinTime>>, <<MaxTime>>)
  /\ probe.result

\* ------------------------------------------------------------------------
\* Properties of the conversions between bounds and timeframes
\* ------------------------------------------------------------------------
\* A conversion call changes nothing in the engine, so the engine's steps are
\* taken from the states without an observed call only.
\* The conversions read positions relative to the first bar, so the data
\* sets that start at TimeBase stand for the later ones.
EngineStep == query.fn = "none" /\ (SetItemsFrom(TreesUpTo(MaxBuckets)) \/ Wheel)

NextBounds == EngineStep \/ TimeframeFromBounds \/ RoundTrip

SpecBounds == Init /\ [][NextBounds]_vars

\* the bars whose centre the queried bounds contain
QueriedBars == query.bounds \cap bars(buckets, expanded)

\* C12: getTimeframeFromBounds(bounds) returns UNDEFINED_TIMEFRAME when no
\* visible bar has its centre inside bounds; otherwise its start is the least
\* start and its end the greatest end of exactly those bars, whatever the order
\* in which the nodes are iterated.
C12_MinStartMaxEnd ==
  query.fn = "getTimeframeFromBounds" =>
    \A Q \in {QueriedBars} :
      IF Q = {} THEN query.result = Sentinel
      ELSE /\ ~query.result.sentinel
           /\ \E n \in Q : buckets[n].start = query.result.val[1]
           /\ \A n \in Q : buckets[n].start >= query.result.val[1]
           /\ \E n \in Q : buckets[n].end = query.result.val[2]
           /\ \A n \in Q : buckets[n].end <= query.result.val[2]

\* bounds that contain two bars and a group node, the later bar iterated first
C12_Witness ==
  /\ query.fn = "getTimeframeFromBounds"
  /\ Cardinality(QueriedBars) >= 2
  /\ query.bounds # QueriedBars
  /\ \E i, j \in 1..Len(query.order) :
       /\ i < j
       /\ query.order[i] \in QueriedBars /\ query.order[j] \in QueriedBars
       /\ buckets[query.order[i]].start > buckets[query.order[j]].start


\* C13: for a window B that covers a run S of visible bars,
\* getBoundsFromTimeframe(getTimeframeFromBounds(B)) runs from the least x to
\* the greatest maxX of S and so selects exactly the bars of S; the bars it
\* takes are the visible bars whose interval intersects the timeframe by the
\* half-open rule, and the span has width 1 when none intersects.
C13_RoundTrip ==
  query.fn = "roundTrip" =>
    /\ query.back.contains = query.bounds
    /\ query.back.width1 <=>
         ~\E n \in bars(buckets, expanded) :
            /\ buckets[n].start < query.result.val[2]
            /\ buckets[n].end > query.result.val[1]
    /\ ~query.back.width1 =>
         \A n \in bars(buckets, expanded) :
           n \in query.back.contains <=>
             (buckets[n].start < query.result.val[2] /\ buckets[n].end > query.result.val[1])

\* a window over some but not all bars, which ends where a bar it leaves out
\* starts
C13_Witness ==
  /\ query.fn = "roundTrip"
  /\ query.bounds # {}
  /\ \E n \in bars(buckets, expanded) \ query.bounds :
       buckets[n].start = query.result.val[2]

\* a window that contains no bar
C13_WitnessNone ==
  /\ query.fn = "roundTrip" /\ query.bounds = {} /\ query.back.width1
  /\ bars(buckets, expanded) # {}


\* ------------------------------------------------------------------------
\* Properties of the timeframe and its notifications
\* ------------------------------------------------------------------------
WheelHandled == last.op \in {"wheel0", "zoomIn", "zoomOut"}

\* the visible bars whose interval intersects the engine's timeframe
BarsInTimeframe ==
  {n \in bars(buckets, expanded) :
     buckets[n].start < timeframe.val[2] /\ buckets[n].end > timeframe.val[1]}

\* C14: a wheel event that changed the zoom level moves the timeframe
\* rectangle onto the bars of the new level that intersect the timeframe, and
\* while a wheel event is handled no filterChanged listener is invoked and the
\* timeframe keeps its value.
C14_SilentZoom ==
  WheelHandled =>
    /\ last.notified = 0
    /\ ~last.changed
    /\ (last.ret /\ showTimeframeRectangle) => rectBounds = BarsInTimeframe

\* a zoom by the wheel after which the rectangle covers bars whose hull is not
\* the timeframe: a rectangle update that notifies would have changed it
C14_Witness ==
  /\ last.op \in {"zoomIn", "zoomOut"} /\ last.ret /\ showTimeframeRectangle
  /\ rectBounds # {}
  /\ getTimeframeFromBounds(buckets, rectBounds).val # timeframe.val


\* C15 as stated: an operation that changes the timeframe's value, other than
\* a wheel event, invokes the filterChanged listeners before it returns; and a
\* move of the rectangle that derives the timeframe it already has notifies
\* nobody.
C15_ChangeNotifies ==
  /\ (last.op \in {"moveSelection", "setItems", "timer"} /\ last.changed)
       => last.notified > 0
  /\ (last.op = "moveSelection" /\ ~last.changed) => last.notified = 0



\* an update() that ran to its end on an engine with a timeframe rectangle and
\* a timeframe selected before
Replaced ==
  /\ last.op = "setItems" /\ ~last.thrown
  /\ showTimeframeRectangle /\ ~last.before.sentinel

\* the time bounds of the data now shown
DataBounds == getTimeframeFromBounds(buckets, bars(buckets, expanded)).val

Duration(tf) == tf[2] - tf[1]

\* C16 as stated: when the new data's bounds do not overlap the timeframe
\* selected before, the timeframe after the update has the duration of the
\* previous one and lies next to the new data.
C16_ShiftKeepsDuration ==
  (Replaced /\ (last.before.val[2] < DataBounds[1] \/ last.before.val[1] > DataBounds[2]))
    => /\ Duration(timeframe.val) = Duration(last.before.val)
       /\ timeframe.val = movedTimeframe(last.before.val, DataBounds)

\* C17 as stated: when the new data's bounds overlap the timeframe selected
\* before, the timeframe after the update is the one before it, and the
\* filterChanged listeners are invoked.
C17_OverlapKeepsTimeframe ==
  (Replaced /\ intervalsIntersect(last.before.val[1], last.before.val[2],
                                  DataBounds[1], DataBounds[2]))
    => /\ timeframe.val = last.before.val
       /\ last.notified > 0


(***************************************************************************)
(* Who changes the timeframe                                               *)
(***************************************************************************)

\* The input events the timeframe is said to be indifferent to: the wheel,
\* the resize event and the recomputation the resize event defers.
PassiveOps == {"wheel0", "zoomIn", "zoomOut", "resize", "resizeWidth", "timer"}

\* C18: the timeframe is changed only by a dragged selection, by the centring
\* of a data change or by an animation step; a wheel event, a resize and the
\* recomputation a resize defers leave the timeframe as it was.
C18_PassiveEventsKeepTimeframe ==
  last.op \in PassiveOps => ~last.changed


(***************************************************************************)
(* Resize recomputations                                                   *)
(***************************************************************************)

\* the largest bucket tree of the data sets a resize is followed through
MaxLiveBuckets == 4

\* set items(items) with one of the smaller data sets
SetItemsLive == SetItemsFrom(TreesUpTo(MaxLiveBuckets))

NextLive == SetItemsLive \/ Wheel \/ Resize \/ Timer \/ MoveSelection

\* setTimeout runs its callback once the delay has passed: a pending timer is
\* not postponed forever
SpecLive == Init /\ [][NextLive]_vars /\ WF_vars(Timer)

\* changeLayout is set exactly while a recomputation is pending
OnePending == timers <= 1 /\ (changeLayout <=> timers = 1)

\* a step taken while a recomputation is pending schedules no further one
NoSecondTimer == timers > 0 => timers' <= timers

\* C19: resize recomputations are coalesced: at most one deferred
\* recomputation is pending in every reachable state, a height-changing resize
\* that arrives while one is pending schedules no second one, and every
\* height-changing resize is eventually followed by a recomputation.
C19_Coalesced ==
  /\ []OnePending
  /\ [][NoSecondTimer]_vars
  /\ (last.op = "resize") ~> (last.op = "timer")

\* a height-changing resize arrived while a recomputation was pending
C19_Witness == last.op = "resize" /\ ~last.ret /\ timers = 1 /\ changeLayout


(***************************************************************************)
(* Layout before conversion                                                *)
(***************************************************************************)

\* C20: after a zoom transition and after a data update the layout pass runs
\* before any conversion between bounds and timeframe reads the geometry of
\* the bars: no handler converts between a change of the tree and the layout
\* pass that follows it.
C20_LayoutBeforeQuery == last.staleReads = 0

\* a wheel event collapsed or expanded the tree and the rectangle was then
\* recomputed from the timeframe
C20_Witness ==
  /\ last.op \in {"zoomIn", "zoomOut"}
  /\ last.ret
  /\ showTimeframeRectangle
  /\ ~timeframe.sentinel
  /\ rectBounds # {}


(***************************************************************************)
(* The granularity iterators                                               *)
(***************************************************************************)

\* aggregateBuckets runs the granularities in their order (days, weeks,
\* months, years) over the time range of the items; calendar.level counts the
\* iterators that have run on the range.
DaysCall ==
  /\ ~calendar.called
  /\ \E start \in Starts : \E end \in Ends(start) :
       calendar' = [called |-> TRUE, level |-> 1, start |-> start, end |-> end,
                    days |-> days(start.day, end.day, MaxYield),
                    weeks |-> Done, months |-> Done, years |-> Done]
  /\ UNCHANGED <<buckets, expanded, zoom, timeframe, showTimeframeRectangle,
                 changeLayout, probe, last, timers, rectBounds, query, scaling, animationEndListener, webworker, sentinelValue, cleanedUp, timelineComponent>>

WeeksCall ==
  /\ calendar.called /\ calendar.level = 1
  /\ calendar' = [calendar EXCEPT
                    !.level = 2,
                    !.weeks = weeks(calendar.start.day, calendar.end.day, MaxYield)]
  /\ UNCHANGED <<buckets, expanded, zoom, timeframe, showTimeframeRectangle,
                 changeLayout, probe, last, timers, rectBounds, query, scaling, animationEndListener, webworker, sentinelValue, cleanedUp, timelineComponent>>

MonthsCall ==
  /\ calendar.called /\ calendar.level = 2
  /\ calendar' = [calendar EXCEPT
                    !.level = 3,
                    !.months = months(calendar.start.day, calendar.end.day, MaxYield)]
  /\ UNCHANGED <<buckets, expanded, zoom, timeframe, showTimeframeRectangle,
                 changeLayout, probe, last, timers, rectBounds, query, scaling, animationEndListener, webworker, sentinelValue, cleanedUp, timelineComponent>>

YearsCall ==
  /\ calendar.called /\ calendar.level = 3
  /\ calendar' = [calendar EXCEPT
                    !.level = 4,
                    !.years = years(calendar.start.day, calendar.end.day, MaxYield)]
  /\ UNCHANGED <<buckets, expanded, zoom, timeframe, showTimeframeRectangle,
                 changeLayout, probe, last, timers, rectBounds, query, scaling, animationEndListener, webworker, sentinelValue, cleanedUp, timelineComponent>>

NextCalendar == DaysCall \/ WeeksCall \/ MonthsCall \/ YearsCall

SpecCalendar == Init /\ [][NextCalendar]_vars

\* the weeks iterator has run on the range
WeeksYielded == calendar.called /\ calendar.level >= 2

\* the first day of the month after the month of n
nextMonthStart(n) == Date(getFullYear(n), getMonth(n) + 1, 1)

\* the k-th week of a month starts on day 7(k-1)+1 of the month and ends 7
\* days later or at the first of the next month, whichever comes first
NumberedInMonth(w) ==
  /\ getDate(w.start) = 7 * (w.label - 1) + 1
  /\ w.end = Min(w.start + 7, nextMonthStart(w.start))

Jan28_2024 == Date(FirstYear + 1, 0, 28)
Jan29_2024 == Date(FirstYear + 1, 0, 29)
Feb1_2024 == Date(FirstYear + 1, 1, 1)
Feb5_2024 == Date(FirstYear + 1, 1, 5)

\* C21: the weeks iterator numbers the weeks per calendar month: the labels of
\* a month are 1, 2, ..., k from the first of the month on, every week lies
\* inside one calendar month (the last week of a month is clipped at the first
\* of the next month), the numbering restarts at 1 from December to January
\* too, and over [Jan 28 2024, Feb 5 2024) the week of Jan 29-31 ends at Feb 1
\* and is followed by week 1 starting at Feb 1.
C21_WeeksPerMonth ==
  WeeksYielded =>
    \A ws \in {calendar.weeks.yielded} :
      /\ ws # <<>>
      /\ ws[1].label = 1 /\ getDate(ws[1].start) = 1
      /\ \A i \in 1..Len(ws) : NumberedInMonth(ws[i])
      /\ \A i \in 1..(Len(ws) - 1) :
           /\ ws[i + 1].start = ws[i].end
           /\ ws[i + 1].label = IF getDate(ws[i + 1].start) = 1 THEN 1 ELSE ws[i].label + 1
      /\ (calendar.start.day = Jan28_2024 /\ calendar.end.day = Feb5_2024) =>
           \E i \in 1..(Len(ws) - 1) :
             /\ ws[i].start = Jan29_2024 /\ ws[i].end = Feb1_2024
             /\ ws[i + 1].start = Feb1_2024 /\ ws[i + 1].label = 1

\* the weeks over [Jan 28 2024, Feb 5 2024) have been yielded
C21_Witness ==
  /\ WeeksYielded
  /\ calendar.start = [day |-> Jan28_2024, late |-> FALSE]
  /\ calendar.end = [day |-> Feb5_2024, late |-> FALSE]
  /\ \E i \in 1..Len(calendar.weeks.yielded) :
       calendar.weeks.yielded[i].start = Jan29_2024 /\ calendar.weeks.yielded[i].label = 5

\* the weeks of a range that runs from December into January
C21_WitnessNewYear ==
  /\ WeeksYielded
  /\ getFullYear(calendar.start.day) < getFullYear(calendar.end.day)
  /\ \E i \in 1..Len(calendar.weeks.yielded) :
       /\ getMonth(calendar.weeks.yielded[i].start) = 0
       /\ calendar.weeks.yielded[i].label = 1


\* the intervals are not empty and each ends where the next starts
Contiguous(seq) ==
  /\ \A i \in 1..Len(seq) : seq[i].start < seq[i].end
  /\ \A i \in 1..(Len(seq) - 1) : seq[i].end = seq[i + 1].start

\* every day from the day of start to the day of end lies in exactly one
\* interval; an instant of a day lies in the intervals its day lies in
CoversOnce(seq, start, end) ==
  \A d \in start.day..end.day :
    Cardinality({i \in 1..Len(seq) : seq[i].start <= d /\ d < seq[i].end}) = 1

\* a terminated run that yielded contiguous intervals from floor to ceiling
FromTo(run, floor, ceiling, start, end) ==
  /\ run.terminated
  /\ run.yielded # <<>>
  /\ Contiguous(run.yielded)
  /\ run.yielded[1].start = floor
  /\ run.yielded[Len(run.yielded)].end = ceiling
  /\ CoversOnce(run.yielded, start, end)

\* the first day of the week of the month that contains day n
weekStart(n) == n - ((getDate(n) - 1) % 7)

\* the end of the week of the month that contains day n
weekStop(n) == Min(weekStart(n) + 7, nextMonthStart(n))

\* C22 as stated, with the week as the calendar unit of the weeks iterator:
\* the weeks begin at the start of the week that contains start and end at
\* the end of the week that contains end.
C22_AsStated ==
  WeeksYielded =>
    FromTo(calendar.weeks, weekStart(calendar.start.day), weekStop(calendar.end.day),
           calendar.start, calendar.end)

\* C22: for every start <= end each iterator terminates and yields a finite
\* sequence of intervals with start < end, each ending where the next starts,
\* in which every instant from start to end lies in exactly one interval. The
\* days run from the midnight of start's day to the midnight after end's day,
\* the weeks and the months from the first of start's month to the first of
\* the month after end's month, the years from Jan 1 of start's year to Jan 1
\* of the year after end's year.
C22_Partition ==
  calendar.called =>
    /\ FromTo(calendar.days, calendar.start.day, calendar.end.day + 1,
              calendar.start, calendar.end)
    /\ calendar.level >= 2 =>
         FromTo(calendar.weeks, Date(getFullYear(calendar.start.day),
                                     getMonth(calendar.start.day), 1),
                nextMonthStart(calendar.end.day), calendar.start, calendar.end)
    /\ calendar.level >= 3 =>
         FromTo(calendar.months, Date(getFullYear(calendar.start.day),
                                      getMonth(calendar.start.day), 1),
                nextMonthStart(calendar.end.day), calendar.start, calendar.end)
    /\ calendar.level >= 4 =>
         FromTo(calendar.years, Date(getFullYear(calendar.start.day), 0, 1),
                Date(getFullYear(calendar.end.day) + 1, 0, 1),
                calendar.start, calendar.end)

\* all four iterators ran on a range that starts in the last week of one year
\* and ends at a midnight of the next year
C22_Witness ==
  /\ calendar.called /\ calendar.level = 4
  /\ getFullYear(calendar.start.day) < getFullYear(calendar.end.day)
  /\ getDate(calendar.start.day) > 28
  /\ ~calendar.end.late
  /\ Len(calendar.years.yielded) = 2
  /\ Len(calendar.months.yielded) = 2


\* the intervals of the coarser level that contain the whole child
Containing(child, parents) ==
  {j \in 1..Len(parents) : parents[j].start <= child.start /\ child.end <= parents[j].end}

\* the intervals of the coarser level that contain the child's start
ParentsOf(child, parents) ==
  {j \in 1..Len(parents) : parents[j].start <= child.start /\ child.start < parents[j].end}

\* every interval of the finer level lies inside exactly one interval of the
\* coarser level, the one that contains its start
Nested(children, parents) ==
  \A i \in 1..Len(children) :
    /\ Cardinality(Containing(children[i], parents)) = 1
    /\ ParentsOf(children[i], parents) = Containing(children[i], parents)

\* C23: for the same input range every day interval lies inside exactly one
\* week interval, every week interval inside exactly one month interval and
\* every month interval inside exactly one year interval; the parent is the
\* only coarser interval that contains the child's start.
C23_Hierarchy ==
  (calendar.called /\ calendar.level = 4) =>
    /\ Nested(calendar.days.yielded, calendar.weeks.yielded)
    /\ Nested(calendar.weeks.yielded, calendar.months.yielded)
    /\ Nested(calendar.months.yielded, calendar.years.yielded)

\* a range from the end of January into February: the days of the clipped
\* fifth week and of the first week of February have different parents
C23_Witness ==
  /\ calendar.called /\ calendar.level = 4
  /\ getMonth(calendar.start.day) = 0 /\ getDate(calendar.start.day) > 28
  /\ getMonth(calendar.end.day) = 1
  /\ \E i, j \in 1..Len(calendar.days.yielded) :
       Containing(calendar.days.yielded[i], calendar.weeks.yielded)
         # Containing(calendar.days.yielded[j], calendar.weeks.yielded)


(***************************************************************************)
(* The bar-scaling stage                                                   *)
(***************************************************************************)

\* The layout graph the stage runs on: a group of the layer above the active
\* one with two bars of the active layer, whose values add up to the group's,
\* and one item node.
BarGraph(z, a, b) ==
  << [type |-> "group", layer |-> z + 1, aggregatedValue |-> a + b, height |-> 0],
     [type |-> "group", layer |-> z, aggregatedValue |-> a, height |-> 0],
     [type |-> "group", layer |-> z, aggregatedValue |-> b, height |-> 0],
     [type |-> "leaf-item", layer |-> 0, aggregatedValue |-> 1, height |-> 1] >>

\* applyTimelineLayout runs the stage with a positive maxHeight
BarScaling ==
  /\ ~scaling.ran
  /\ \E maxHeight \in 1..MaxHeight, a, b \in 0..MaxValue :
       scaling' = [ran |-> TRUE, maxHeight |-> maxHeight, zoom |-> zoom,
                   nodes |-> BarGraph(zoom, a, b),
                   heights |-> applyLayoutImpl(BarGraph(zoom, a, b), maxHeight, zoom)]
  /\ UNCHANGED <<buckets, expanded, zoom, timeframe, showTimeframeRectangle,
                 changeLayout, probe, last, timers, rectBounds, query, calendar, animationEndListener, webworker, sentinelValue, cleanedUp, timelineComponent>>

NextScaling == BarScaling

SpecScaling == Init /\ [][NextScaling]_vars

\* the bars of the active layer
ActiveBars == {k \in 1..Len(scaling.nodes) : inActiveLayer(scaling.nodes[k], scaling.zoom)}

\* the greatest value of the active layer
ActiveMax ==
  Max(scaling.nodes[2].aggregatedValue, scaling.nodes[3].aggregatedValue)

\* the bars of the active layer with the greatest value
Tallest == {k \in ActiveBars : scaling.nodes[k].aggregatedValue = ActiveMax}

\* C24 as stated: the tallest bar of the active layer has exactly the
\* available height and no bar of the active layer exceeds it.
C24_Exact ==
  (scaling.ran /\ ActiveMax > 0) =>
    /\ \A k \in Tallest : scaling.heights[k] = fromInt(scaling.maxHeight)
    /\ \A k \in ActiveBars : ~lessThan(fromInt(scaling.maxHeight), scaling.heights[k])

\* the neighbours of a positive number among the numbers
above(x) == normalised(increment(x.bits), x.exp)

\* C24: after the stage ran with a positive available height, the height of
\* every group node is its aggregatedValue times the scale, with the scale the
\* rounded quotient of the available height and the greatest aggregatedValue
\* of the active layer, or 1 when that is zero. The tallest bar of the active
\* layer has the available height up to one unit in the last place, and no
\* bar of the active layer is higher than the tallest one.
C24_ScaledToFit ==
  scaling.ran =>
    /\ ActiveMax = 0 =>
         \A k \in 1..3 : scaling.heights[k] = fromInt(scaling.nodes[k].aggregatedValue)
    /\ ActiveMax > 0 =>
         /\ \A k \in Tallest :
              \/ scaling.heights[k] = fromInt(scaling.maxHeight)
              \/ above(scaling.heights[k]) = fromInt(scaling.maxHeight)
              \/ scaling.heights[k] = above(fromInt(scaling.maxHeight))
         /\ \A k \in ActiveBars, t \in Tallest :
              ~lessThan(scaling.heights[t], scaling.heights[k])
    /\ scaling.heights[4] = fromInt(scaling.nodes[4].height)

\* the tallest bar came out higher than the available height
C24_Witness ==
  /\ scaling.ran /\ ActiveMax > 0
  /\ \E k \in Tallest : lessThan(fromInt(scaling.maxHeight), scaling.heights[k])
  /\ \E k \in ActiveBars \ Tallest : ~scaling.heights[k].zero


(***************************************************************************)
(* The animation-end listeners                                             *)
(***************************************************************************)

\* addAnimationEndListener(listener)
AddAnimationEndListener ==
  /\ Len(animationEndListener.list) < MaxRegistrations
  /\ \E l \in Listeners :
       animationEndListener' =
         [animationEndListener EXCEPT
            !.list = combine(@, l), !.op = "add", !.listener = l,
            !.before = invocations(animationEndListener.list, l),
            !.removed = @ \ {l}]
  /\ UNCHANGED <<buckets, expanded, zoom, timeframe, showTimeframeRectangle,
                 changeLayout, probe, last, timers, rectBounds, query, calendar, scaling, webworker, sentinelValue, cleanedUp, timelineComponent>>

\* removeAnimationEndListener(listener)
RemoveAnimationEndListener ==
  /\ Len(animationEndListener.list) < MaxRegistrations
  /\ \E l \in Listeners :
       animationEndListener' =
         [animationEndListener EXCEPT
            !.list = combine(@, l), !.op = "remove", !.listener = l,
            !.before = invocations(animationEndListener.list, l),
            !.removed = @ \cup {l}]
  /\ UNCHANGED <<buckets, expanded, zoom, timeframe, showTimeframeRectangle,
                 changeLayout, probe, last, timers, rectBounds, query, calendar, scaling, webworker, sentinelValue, cleanedUp, timelineComponent>>

\* the animation-ended listener of getTimeframeAnimation: this.animationEndListener?.()
AnimationEnded ==
  /\ animationEndListener' =
       [animationEndListener EXCEPT
          !.op = "ended", !.listener = 0, !.before = 0,
          !.invoked = [l \in Listeners |-> invocations(animationEndListener.list, l)]]
  /\ UNCHANGED <<buckets, expanded, zoom, timeframe, showTimeframeRectangle,
                 changeLayout, probe, last, timers, rectBounds, query, calendar, scaling, webworker, sentinelValue, cleanedUp, timelineComponent>>

NextListeners == AddAnimationEndListener \/ RemoveAnimationEndListener \/ AnimationEnded

SpecListeners == Init /\ [][NextListeners]_vars

\* C25: removeAnimationEndListener(l) de-registers l: a listener whose last
\* add/remove call was a remove is not invoked when the animation ends, and a
\* remove call never raises the number of times its listener is invoked per
\* animation end.
C25_RemoveDeregisters ==
  /\ animationEndListener.op = "ended" =>
       \A l \in animationEndListener.removed : animationEndListener.invoked[l] = 0
  /\ animationEndListener.op = "remove" =>
       invocations(animationEndListener.list, animationEndListener.listener)
         <= animationEndListener.before


(***************************************************************************)
(* Web worker registration                                                 *)
(***************************************************************************)

\* setWebWorkerLicense(licensePar)
SetWebWorkerLicense ==
  /\ webworker' = [webworker EXCEPT !.license = TRUE, !.op = "setLicense", !.threw = FALSE]
  /\ UNCHANGED <<buckets, expanded, zoom, timeframe, showTimeframeRectangle,
                 changeLayout, probe, last, timers, rectBounds, query, calendar, scaling,
                 animationEndListener, sentinelValue, cleanedUp, timelineComponent>>

\* registerWebWorker(worker); a second call for the same worker replaces the
\* handler and starts a new promise
RegisterWebWorker ==
  /\ Len(webworker.posted) < MaxMessages
  /\ webworker' = registerWebWorker(webworker)
  /\ UNCHANGED <<buckets, expanded, zoom, timeframe, showTimeframeRectangle,
                 changeLayout, probe, last, timers, rectBounds, query, calendar, scaling,
                 animationEndListener, sentinelValue, cleanedUp, timelineComponent>>

\* the worker posts a message to the page
WorkerPosts ==
  /\ webworker.sent < MaxMessages
  /\ \E data \in WorkerMessages :
       webworker' = [webworker EXCEPT
                       !.inbox = Append(@, data), !.sent = @ + 1, !.op = "workerPosts",
                       !.threw = FALSE,
                       !.licensedSent = @ \/ data = "licensed"]
  /\ UNCHANGED <<buckets, expanded, zoom, timeframe, showTimeframeRectangle,
                 changeLayout, probe, last, timers, rectBounds, query, calendar, scaling,
                 animationEndListener, sentinelValue, cleanedUp, timelineComponent>>

\* the page receives the worker's next message: the handler runs, if one is set
MessageEvent ==
  /\ webworker.inbox # <<>>
  /\ \E w \in {[webworker EXCEPT
                  !.inbox = Tail(@), !.op = "message", !.threw = FALSE,
                  !.readyHandled = IF webworker.handler /\ Head(webworker.inbox) = "ready"
                                   THEN @ + 1 ELSE @]} :
       webworker' = IF webworker.handler THEN onmessage(w, Head(webworker.inbox)) ELSE w
  /\ UNCHANGED <<buckets, expanded, zoom, timeframe, showTimeframeRectangle,
                 changeLayout, probe, last, timers, rectBounds, query, calendar, scaling,
                 animationEndListener, sentinelValue, cleanedUp, timelineComponent>>

NextWorker == SetWebWorkerLicense \/ RegisterWebWorker \/ WorkerPosts \/ MessageEvent

SpecWorker == Init /\ [][NextWorker]_vars

\* C26: registerWebWorker throws when no licence has been set and then does
\* nothing else; otherwise it posts 'check-is-ready' and its promise is
\* pending. Every 'ready' message the handler receives is answered by posting
\* the licence, and the promise is resolved only after the worker has sent
\* 'licensed': it is pending as long as no 'licensed' message has arrived.
C26_Registration ==
  /\ webworker.op = "register" =>
       /\ webworker.threw <=> ~webworker.license
       /\ webworker.threw =>
            /\ ~webworker.handler /\ webworker.promise = "none"
            /\ webworker.posted = <<>>
       /\ ~webworker.threw =>
            /\ webworker.handler /\ webworker.promise = "pending"
            /\ webworker.posted[Len(webworker.posted)] = "check-is-ready"
  /\ posts(webworker.posted, "license") = webworker.readyHandled
  /\ webworker.promise = "resolved" => webworker.licensedSent
  /\ (webworker.handler /\ ~webworker.licensedSent) => webworker.promise = "pending"

\* the worker said 'ready', got the licence, said 'licensed', and the promise
\* is resolved
C26_Witness ==
  /\ webworker.promise = "resolved"
  /\ webworker.posted = <<"check-is-ready", "license">>
  /\ webworker.readyHandled = 1

\* a registration without a licence threw
C26_WitnessThrows == webworker.op = "register" /\ webworker.threw


(***************************************************************************)
(* The UNDEFINED_TIMEFRAME array                                           *)
(***************************************************************************)

NextSentinel == SetItemsLive \/ Wheel \/ MoveSelection \/ SetTimeframe

SpecSentinel == Init /\ [][NextSentinel]_vars

\* C27: the UNDEFINED_TIMEFRAME array is never written to: after every data
\* update, move of the timeframe rectangle and assignment of a timeframe its
\* elements are epoch 0 and epoch 0, and a timeframe that is this array has
\* that value.
C27_SentinelIntact ==
  /\ sentinelValue = <<EpochZero, EpochZero>>
  /\ timeframe.sentinel => timeframe.val = sentinelValue

\* a data update on an engine whose timeframe was the array, with a timeframe
\* rectangle: the timeframe is an array of its own afterwards
C27_Witness ==
  /\ last.op = "setItems" /\ ~last.thrown /\ showTimeframeRectangle
  /\ last.before.sentinel /\ ~timeframe.sentinel
  /\ last.pre # <<>> /\ last.notified > 0


(***************************************************************************)
(* zoomIn and zoomOut                                                      *)
(***************************************************************************)

\* the tree is not empty and its folder states are those zoomTo(zoom) leaves
ConvergedTree ==
  /\ Len(buckets) > 0
  /\ zoomTo(buckets, expanded, zoom).expanded = expanded
  /\ ~zoomTo(buckets, expanded, zoom).zoomChanged

AtClamp ==
  \/ last'.op = "zoomIn" /\ zoom = minZoom
  \/ last'.op = "zoomOut" /\ zoom = maxZoom - 1

ZoomStepReturns ==
  (last'.op \in {"zoomIn", "zoomOut"} /\ ConvergedTree) =>
    /\ last'.ret <=> zoom' # zoom
    /\ ~last'.ret <=> AtClamp
    /\ ~last'.ret => (last'.collapsed = 0 /\ last'.expansions = 0 /\ expanded' = expanded)

\* C28: on a non-empty tree that is converged for the zoom level, zoomIn and
\* zoomOut return true exactly when they change the zoom level; they return
\* false, collapsing and expanding nothing, exactly at zoom = minZoom for
\* zoomIn and at zoom = maxZoom - 1 for zoomOut. The wheel handler lays out
\* again whenever the call returned true, so after every change of the level.
C28_ReturnsZoomChange == [][ZoomStepReturns]_vars

\* a zoomIn to the finest level that returned true, followed by states where
\* the tree is converged for that level
C28_Witness ==
  /\ last.op = "zoomIn" /\ last.ret /\ zoom = minZoom /\ ConvergedTree
  /\ last.expansions > 0

\* a zoomIn at the finest level that returned false
C28_WitnessClamp ==
  /\ last.op = "zoomIn" /\ ~last.ret /\ zoom = minZoom /\ ConvergedTree


(***************************************************************************)
(* cleanUp and the deferred recomputation                                  *)
(***************************************************************************)

\* cleanUp(): disposes the timeframe rectangle and the graph component and
\* removes the div; the timer of the size-changed listener is left as it is
CleanUp ==
  /\ ~cleanedUp
  /\ cleanedUp' = TRUE
  /\ last' = Started("cleanUp")
  /\ UNCHANGED <<buckets, expanded, zoom, timeframe, showTimeframeRectangle,
                 changeLayout, probe, timers, rectBounds, query, calendar, scaling,
                 animationEndListener, webworker, sentinelValue, timelineComponent>>

\* the engine is used and resized until it is cleaned up; a timer that is
\* pending then fires afterwards
NextCleanUp ==
  \/ ~cleanedUp /\ SetItemsLive
  \/ ~cleanedUp /\ Wheel
  \/ ~cleanedUp /\ Resize
  \/ Timer
  \/ CleanUp

SpecCleanUp == Init /\ [][NextCleanUp]_vars

\* C29: the callback of the 500 ms timer never runs on an engine after its
\* cleanUp().
C29_NoTimerAfterCleanUp == cleanedUp => last.op # "timer"


(***************************************************************************)
(* The Timeline component and its engines                                  *)
(***************************************************************************)

\* the render after setContainer(element) or setContainer(null)
SetContainer ==
  /\ timelineComponent.dispatched = NoEngine
  /\ timelineComponent.created < MaxEngines
  /\ timelineComponent' = render([timelineComponent EXCEPT !.container = ~@])
  /\ UNCHANGED <<buckets, expanded, zoom, timeframe, showTimeframeRectangle,
                 changeLayout, probe, last, timers, rectBounds, query, calendar, scaling,
                 animationEndListener, webworker, sentinelValue, cleanedUp>>

\* the render with a new dataItems prop
NewDataItems ==
  /\ timelineComponent.dispatched = NoEngine
  /\ timelineComponent.created < MaxEngines
  /\ timelineComponent.dataItems < MaxDataItems
  /\ timelineComponent' = render([timelineComponent EXCEPT !.dataItems = @ + 1])
  /\ UNCHANGED <<buckets, expanded, zoom, timeframe, showTimeframeRectangle,
                 changeLayout, probe, last, timers, rectBounds, query, calendar, scaling,
                 animationEndListener, webworker, sentinelValue, cleanedUp>>

\* the render that dispatch({ engine }) asked for
RenderDispatched ==
  /\ timelineComponent.dispatched # NoEngine
  /\ timelineComponent' = render(timelineComponent)
  /\ UNCHANGED <<buckets, expanded, zoom, timeframe, showTimeframeRectangle,
                 changeLayout, probe, last, timers, rectBounds, query, calendar, scaling,
                 animationEndListener, webworker, sentinelValue, cleanedUp>>

NextTimeline == SetContainer \/ NewDataItems \/ RenderDispatched

SpecTimeline == Init /\ [][NextTimeline]_vars

\* C30: every engine.items = dataItems of the component is on an engine that
\* has not been cleaned up, and at most one engine is live at a time.
C30_ItemsOnLiveEngine ==
  /\ timelineComponent.assigned.live
  /\ Cardinality(timelineComponent.live) <= 1

============================================================================
